---- MODULE Spec2Model ----
(***************************************************************************)
(* Model of the documentation de-duplication pipeline of ib_insync_docs:   *)
(* snippet extraction ids, similarity clustering (Deduplicator), the merge *)
(* client (OpenRouterClient) and the index builders.                       *)
(*                                                                         *)
(* Text is modelled as a sequence of one-character strings.  Fractions     *)
(* are pairs <<numerator, denominator>> of naturals, kept in lowest terms. *)
(* Times are integers in milliseconds; token costs are integers in units   *)
(* of 1e-8 dollars.                                                        *)
(***************************************************************************)
EXTENDS Integers, Sequences, FiniteSets, TLC

\* ------------------------------------------------------------------------
\* Bounds of the model
\* ------------------------------------------------------------------------
MaxExamples == 3
MaxRuns == 2

\* ------------------------------------------------------------------------
\* Generic helpers
\* ------------------------------------------------------------------------
Max2(a, b) == IF a >= b THEN a ELSE b

RECURSIVE Gcd(_, _)
Gcd(a, b) == IF b = 0 THEN a ELSE Gcd(b, a % b)

\* a fraction in lowest terms
Frac(n, d) == LET g == Gcd(n, d) IN <<n \div g, d \div g>>

FracAdd(p, q) == Frac(p[1] * q[2] + q[1] * p[2], p[2] * q[2])

FracGE(p, q) == p[1] * q[2] >= q[1] * p[2]

FracMax(p, q) == IF FracGE(p, q) THEN p ELSE q

RECURSIVE SeqToSet(_)
SeqToSet(s) == IF s = <<>> THEN {} ELSE {Head(s)} \cup SeqToSet(Tail(s))

\* ------------------------------------------------------------------------
\* Text: characters, Python's str.split / sorted / " ".join
\* ------------------------------------------------------------------------
\* code points in increasing order, as Python compares characters
CharOrder ==
    <<"\n", " ", "#", "0", "1", "2", "3", "4", "5", "6", "7", "8", "9", ":",
      "A", "C", "M", "O", "T", "a", "b", "c", "d", "e", "g", "i", "m", "n", "o", "r", "s", "t">>

CharOrd(c) == CHOOSE i \in 1..Len(CharOrder) : CharOrder[i] = c

IsSpace(c) == c \in {" ", "\n"}

\* the cased letters of the model's alphabet
UpperLetters == <<"A", "C", "M", "O", "T">>
LowerLetters == <<"a", "c", "m", "o", "t">>

\* str.lower() and str.upper() on one character
LowerChar(c) ==
    IF \E i \in 1..Len(UpperLetters) : UpperLetters[i] = c
    THEN LowerLetters[CHOOSE i \in 1..Len(UpperLetters) : UpperLetters[i] = c] ELSE c

UpperChar(c) ==
    IF \E i \in 1..Len(LowerLetters) : LowerLetters[i] = c
    THEN UpperLetters[CHOOSE i \in 1..Len(LowerLetters) : LowerLetters[i] = c] ELSE c

RECURSIVE StrLess(_, _)
\* s < t for Python strings (lexicographic on code points)
StrLess(s, t) ==
    IF t = <<>> THEN FALSE
    ELSE IF s = <<>> THEN TRUE
    ELSE IF Head(s) = Head(t) THEN StrLess(Tail(s), Tail(t))
    ELSE CharOrd(Head(s)) < CharOrd(Head(t))

RECURSIVE SplitFrom(_, _)
\* str.split(): the maximal runs of non-whitespace; cur is the token being read
SplitFrom(s, cur) ==
    IF s = <<>> THEN (IF cur = <<>> THEN <<>> ELSE <<cur>>)
    ELSE IF IsSpace(Head(s))
         THEN (IF cur = <<>> THEN <<>> ELSE <<cur>>) \o SplitFrom(Tail(s), <<>>)
         ELSE SplitFrom(Tail(s), Append(cur, Head(s)))

Split(s) == SplitFrom(s, <<>>)

RECURSIVE InsertSorted(_, _)
InsertSorted(tok, sorted) ==
    IF sorted = <<>> THEN <<tok>>
    ELSE IF StrLess(tok, Head(sorted)) THEN <<tok>> \o sorted
    ELSE <<Head(sorted)>> \o InsertSorted(tok, Tail(sorted))

RECURSIVE SortTokens(_)
\* sorted(tokens)
SortTokens(toks) ==
    IF toks = <<>> THEN <<>> ELSE InsertSorted(Head(toks), SortTokens(Tail(toks)))

RECURSIVE JoinSpace(_)
\* " ".join(tokens)
JoinSpace(toks) ==
    IF toks = <<>> THEN <<>>
    ELSE IF Len(toks) = 1 THEN toks[1]
    ELSE toks[1] \o <<" ">> \o JoinSpace(Tail(toks))

RECURSIVE Dedupe(_)
\* the distinct elements of a sorted token list (sorted(set(tokens)))
Dedupe(toks) ==
    IF Len(toks) <= 1 THEN toks
    ELSE IF toks[1] = toks[2] THEN Dedupe(Tail(toks))
    ELSE <<toks[1]>> \o Dedupe(Tail(toks))

RECURSIVE FilterTokens(_, _, _)
\* the tokens of toks that are (keep = TRUE) or are not (keep = FALSE) in set
FilterTokens(toks, set, keep) ==
    IF toks = <<>> THEN <<>>
    ELSE IF (Head(toks) \in set) = keep
         THEN <<Head(toks)>> \o FilterTokens(Tail(toks), set, keep)
         ELSE FilterTokens(Tail(toks), set, keep)

\* ------------------------------------------------------------------------
\* Deduplicator._normalize_code
\* ------------------------------------------------------------------------
RECURSIVE StripComments(_, _)
\* re.sub(r"#.*$", "", code, flags=re.MULTILINE): drop from '#' to end of line
StripComments(s, inComment) ==
    IF s = <<>> THEN <<>>
    ELSE IF Head(s) = "\n" THEN <<"\n">> \o StripComments(Tail(s), FALSE)
    ELSE IF inComment \/ Head(s) = "#" THEN StripComments(Tail(s), TRUE)
    ELSE <<Head(s)>> \o StripComments(Tail(s), FALSE)

RECURSIVE CollapseWhitespace(_, _)
\* re.sub(r"\s+", " ", code): every run of whitespace becomes one space
CollapseWhitespace(s, inRun) ==
    IF s = <<>> THEN <<>>
    ELSE IF IsSpace(Head(s))
         THEN (IF inRun THEN <<>> ELSE <<" ">>) \o CollapseWhitespace(Tail(s), TRUE)
         ELSE <<Head(s)>> \o CollapseWhitespace(Tail(s), FALSE)

RECURSIVE LStrip(_)
LStrip(s) == IF s # <<>> /\ IsSpace(Head(s)) THEN LStrip(Tail(s)) ELSE s

RECURSIVE RStrip(_)
RStrip(s) ==
    IF s # <<>> /\ IsSpace(s[Len(s)]) THEN RStrip(SubSeq(s, 1, Len(s) - 1)) ELSE s

\* str.strip()
Strip(s) == RStrip(LStrip(s))

\* str.lower()
Lower(s) == [i \in 1..Len(s) |-> LowerChar(s[i])]

\* the steps in another order: the text is stripped before the comments go
normalize_code_strip_first(code) ==
    Lower(CollapseWhitespace(StripComments(Strip(code), FALSE), FALSE))

normalize_code(code) == Lower(Strip(CollapseWhitespace(StripComments(code, FALSE), FALSE)))

\* ------------------------------------------------------------------------
\* rapidfuzz.fuzz ratios, as fractions of 1 (the code divides each by 100.0)
\* ------------------------------------------------------------------------
RECURSIVE Lcs(_, _)
\* length of the longest common subsequence
Lcs(s, t) ==
    IF s = <<>> \/ t = <<>> THEN 0
    ELSE IF Head(s) = Head(t) THEN 1 + Lcs(Tail(s), Tail(t))
    ELSE Max2(Lcs(Tail(s), t), Lcs(s, Tail(t)))

\* Indel distance: insertions and deletions turning s into t
IndelDistance(s, t) == Len(s) + Len(t) - 2 * Lcs(s, t)

\* 1 - dist/lensum, and 1 when lensum = 0
NormDistance(dist, lensum) == IF lensum = 0 THEN <<1, 1>> ELSE Frac(lensum - dist, lensum)

\* fuzz.ratio(s, t) / 100
fuzz_ratio(s, t) == NormDistance(IndelDistance(s, t), Len(s) + Len(t))

\* fuzz.token_sort_ratio(s, t) / 100
fuzz_token_sort_ratio(s, t) ==
    fuzz_ratio(JoinSpace(SortTokens(Split(s))), JoinSpace(SortTokens(Split(t))))

\* fuzz.token_set_ratio(s, t) / 100
fuzz_token_set_ratio(s, t) ==
    LET tokens_a == Dedupe(SortTokens(Split(s)))
        tokens_b == Dedupe(SortTokens(Split(t)))
        set_a == SeqToSet(tokens_a)
        set_b == SeqToSet(tokens_b)
        intersect == FilterTokens(tokens_a, set_b, TRUE)
        diff_ab == FilterTokens(tokens_a, set_b, FALSE)
        diff_ba == FilterTokens(tokens_b, set_a, FALSE)
        ab_len == Len(JoinSpace(diff_ab))
        ba_len == Len(JoinSpace(diff_ba))
        sect_len == Len(JoinSpace(intersect))
        sep == IF sect_len > 0 THEN 1 ELSE 0
        sect_ab_len == sect_len + sep + ab_len
        sect_ba_len == sect_len + sep + ba_len
        result == NormDistance(IndelDistance(JoinSpace(diff_ab), JoinSpace(diff_ba)),
                               sect_ab_len + sect_ba_len)
        sect_ab_ratio == NormDistance(sep + ab_len, sect_len + sect_ab_len)
        sect_ba_ratio == NormDistance(sep + ba_len, sect_len + sect_ba_len)
    IN  IF tokens_a = <<>> \/ tokens_b = <<>> THEN <<0, 1>>
        ELSE IF intersect # <<>> /\ (diff_ab = <<>> \/ diff_ba = <<>>) THEN <<1, 1>>
        ELSE IF sect_len = 0 THEN result
        ELSE FracMax(result, FracMax(sect_ab_ratio, sect_ba_ratio))

\* the weights of the three metrics, in tenths
WeightRatio == 5
WeightTokenSort == 3
WeightTokenSet == 2

\* Deduplicator._calculate_similarity
calculate_similarity(code1, code2) ==
    LET norm1 == normalize_code(code1)
        norm2 == normalize_code(code2)
        ratio == fuzz_ratio(norm1, norm2)
        token_sort == fuzz_token_sort_ratio(norm1, norm2)
        token_set == fuzz_token_set_ratio(norm1, norm2)
    IN  FracAdd(Frac(ratio[1] * WeightRatio, ratio[2] * 10),
                FracAdd(Frac(token_sort[1] * WeightTokenSort, token_sort[2] * 10),
                        Frac(token_set[1] * WeightTokenSet, token_set[2] * 10)))

\* ------------------------------------------------------------------------
\* Inputs: the snippets the extractor can meet, the collaborator's replies
\* ------------------------------------------------------------------------
None == "None"

CodeAB == <<"a", " ", "b">>
CodeABComment == <<"A", " ", " ", "b", " ", "#", "c">>
CodeABC == <<"a", " ", "b", "\n", "c">>
CodeCommentA == <<"#", "a">>
CodeABCD == <<"a", " ", "b", " ", "c", " ", "d">>

\* what a fenced block and its surroundings give the extractor
Snippets ==
    { [code |-> CodeAB, language |-> "python", context |-> "basic", tags |-> <<"connect">>],
      [code |-> CodeABComment, language |-> "python", context |-> None,
       tags |-> <<"connect", "order">>],
      [code |-> CodeABC, language |-> "py", context |-> None, tags |-> <<>>],
      [code |-> CodeCommentA, language |-> "python", context |-> "todo", tags |-> <<"error">>],
      [code |-> CodeABCD, language |-> "python", context |-> None, tags |-> <<"order">>] }

CodePool == <<CodeAB, CodeABComment, CodeABC, CodeCommentA, CodeABCD>>

\* similarity_threshold values of the configuration, in percent
Thresholds == {75, 85, 100}

\* usage reported by a reply that carries usage
PromptTokens == 1000
CompletionTokens == 2000

\* time a request takes, and time that passes before a call is made (ms)
Latencies == {10}
Waits == {0, 100}
StartTime == 1000

\* JSON objects the collaborator may send: per field "ok", "missing", "null" or
\* "badtype"; confidence is a number (percent), a string, or missing
JsonObject(code, language, description, tags, notes, conf_type, conf) ==
    [canonical_code |-> code, language |-> language, description |-> description,
     tags |-> tags, notes |-> notes, conf_type |-> conf_type, confidence |-> conf]

ObjGood == JsonObject("ok", "ok", "ok", "ok", "ok", "num", 95)
ObjEmpty == JsonObject("missing", "missing", "missing", "missing", "missing", "missing", 0)

Objects ==
    {ObjGood, ObjEmpty,
     JsonObject("ok", "ok", "ok", "ok", "ok", "missing", 0),   \* no confidence
     JsonObject("ok", "ok", "ok", "ok", "ok", "num", 700),     \* confidence 7.0
     JsonObject("ok", "ok", "ok", "ok", "ok", "str", 0),       \* confidence "high"
     JsonObject("ok", "ok", "ok", "badtype", "ok", "num", 95), \* tags a string
     JsonObject("badtype", "ok", "ok", "ok", "ok", "num", 95), \* canonical_code a number
     JsonObject("ok", "ok", "ok", "ok", "null", "num", 95)}    \* notes null

\* the canonical_code and the tags of an object that carries them
DataCode == <<"a", " ", "b", " ", "c">>
DataTags == <<"connect", "order", "data">>

\* a reply of the collaborator: transport "error" (create() raises), "no_choices"
\* (a response without a choice) or "ok"; usage present or not; the content's
\* shape: None, "", prose, a JSON value that is no object, an object, an object
\* in a ```json fence
Reply(transport, usage, shape, obj) ==
    [transport |-> transport, usage |-> usage, shape |-> shape, obj |-> obj]

Replies ==
    {Reply("error", FALSE, "none", ObjEmpty), Reply("no_choices", TRUE, "none", ObjEmpty),
     Reply("ok", FALSE, "object", ObjGood)}
    \cup {Reply("ok", TRUE, sh, ObjEmpty) : sh \in {"none", "empty", "text", "json_list"}}
    \cup {Reply("ok", TRUE, "object", o) : o \in Objects}
    \cup {Reply("ok", TRUE, "fenced_object", ObjGood)}

NoReply == Reply("not_called", FALSE, "none", ObjEmpty)

\* ------------------------------------------------------------------------
\* MarkdownExtractor._generate_id and the CodeExample it labels
\* ------------------------------------------------------------------------
\* hashlib.md5(code.encode()).hexdigest()[:8]: one value per code text
md5_8(code) == CHOOSE i \in 1..Len(CodePool) : CodePool[i] = code

\* f"ex_{self.example_counter:04d}_{hash_part}"
generate_id(counter, code) == <<"ex", counter, md5_8(code)>>

CodeExample(id, snip) ==
    [id |-> id, code |-> snip.code, language |-> snip.language, context |-> snip.context,
     tags |-> snip.tags]

\* ------------------------------------------------------------------------
\* Deduplicator._cluster_similarity and Deduplicator._find_clusters
\* ------------------------------------------------------------------------
RECURSIVE SumSimilarities(_, _, _)
\* the sum of calculate_similarity over the pairs (i, j), i < j, from (i, j) on
SumSimilarities(exs, i, j) ==
    IF i >= Len(exs) THEN <<0, 1>>
    ELSE IF j > Len(exs) THEN SumSimilarities(exs, i + 1, i + 2)
    ELSE FracAdd(calculate_similarity(exs[i].code, exs[j].code),
                 SumSimilarities(exs, i, j + 1))

cluster_similarity(exs) ==
    IF Len(exs) <= 1 THEN <<1, 1>>
    ELSE LET total == SumSimilarities(exs, 1, 2)
             pairs == (Len(exs) * (Len(exs) - 1)) \div 2
         IN  Frac(total[1], total[2] * pairs)

\* similarity >= self.similarity_threshold
SimilarEnough(code1, code2, threshold) ==
    FracGE(calculate_similarity(code1, code2), <<threshold, 100>>)

RECURSIVE FindSimilarTransitive(_, _, _, _, _, _)
\* the inner loop comparing with every member admitted so far, not the seed alone
FindSimilarTransitive(exs, i, j, cluster_examples, processed, threshold) ==
    IF j > Len(exs) THEN [cluster_examples |-> cluster_examples, processed |-> processed]
    ELSE IF i = j \/ exs[j].id \in processed
         THEN FindSimilarTransitive(exs, i, j + 1, cluster_examples, processed, threshold)
    ELSE IF \E k \in DOMAIN cluster_examples :
                SimilarEnough(cluster_examples[k].code, exs[j].code, threshold)
         THEN FindSimilarTransitive(exs, i, j + 1, Append(cluster_examples, exs[j]),
                                    processed \cup {exs[j].id}, threshold)
    ELSE FindSimilarTransitive(exs, i, j + 1, cluster_examples, processed, threshold)

RECURSIVE FindSimilarNoMark(_, _, _, _, _, _)
\* the inner loop without processed.add(other.id)
FindSimilarNoMark(exs, i, j, cluster_examples, processed, threshold) ==
    IF j > Len(exs) THEN [cluster_examples |-> cluster_examples, processed |-> processed]
    ELSE IF i = j \/ exs[j].id \in processed
         THEN FindSimilarNoMark(exs, i, j + 1, cluster_examples, processed, threshold)
    ELSE IF SimilarEnough(exs[i].code, exs[j].code, threshold)
         THEN FindSimilarNoMark(exs, i, j + 1, Append(cluster_examples, exs[j]), processed,
                                threshold)
    ELSE FindSimilarNoMark(exs, i, j + 1, cluster_examples, processed, threshold)

RECURSIVE FindSimilar(_, _, _, _, _, _)
\* the inner loop of _find_clusters, from index j on
FindSimilar(exs, i, j, cluster_examples, processed, threshold) ==
    IF j > Len(exs) THEN [cluster_examples |-> cluster_examples, processed |-> processed]
    ELSE IF i = j \/ exs[j].id \in processed
         THEN FindSimilar(exs, i, j + 1, cluster_examples, processed, threshold)
    ELSE IF SimilarEnough(exs[i].code, exs[j].code, threshold)
         THEN FindSimilar(exs, i, j + 1, Append(cluster_examples, exs[j]),
                          processed \cup {exs[j].id}, threshold)
    ELSE FindSimilar(exs, i, j + 1, cluster_examples, processed, threshold)

\* f"cluster_{len(clusters):04d}"
ClusterId(n) == <<"cluster", n>>

\* the cluster with its last member as canonical and its members reversed
DuplicateClusterLastFirst(cluster_id, exs, score, canonical) ==
    [cluster_id |-> cluster_id, examples |-> [k \in 1..Len(exs) |-> exs[Len(exs) + 1 - k]],
     similarity_score |-> score, canonical |-> canonical]

DuplicateCluster(cluster_id, exs, score, canonical) ==
    [cluster_id |-> cluster_id, examples |-> exs, similarity_score |-> score,
     canonical |-> canonical]

RECURSIVE FindClustersFrom(_, _, _, _, _)
\* the outer loop of _find_clusters, from index i on
FindClustersFrom(exs, i, cls, processed, threshold) ==
    IF i > Len(exs) THEN cls
    ELSE IF exs[i].id \in processed
         THEN FindClustersFrom(exs, i + 1, cls, processed, threshold)
    ELSE LET inner == FindSimilar(exs, i, 1, <<exs[i]>>, processed \cup {exs[i].id},
                                  threshold)
             cluster == DuplicateCluster(ClusterId(Len(cls)), inner.cluster_examples,
                                         cluster_similarity(inner.cluster_examples),
                                         inner.cluster_examples[1].id)
         IN  FindClustersFrom(exs, i + 1, Append(cls, cluster), inner.processed, threshold)

find_clusters(exs, threshold) == FindClustersFrom(exs, 1, <<>>, {}, threshold)

\* ------------------------------------------------------------------------
\* OpenRouterClient
\* ------------------------------------------------------------------------
\* self.min_request_interval = 0.05, in ms
min_request_interval == 50

\* pricing["deepseek/deepseek-r1"] per token, in 1e-8 dollars
RateInput == 55
RateOutput == 219

\* OpenRouterClient.__init__: the counters and the rate-limit clock
NewClient(track_costs) ==
    [total_input_tokens |-> 0, total_output_tokens |-> 0, total_cost |-> 0,
     last_request_time |-> 0, track_costs |-> track_costs]

\* the cost of the prompt tokens alone
update_cost_input_only(c, input_tokens, output_tokens) ==
    [c EXCEPT !.total_cost = @ + input_tokens * RateInput]

\* OpenRouterClient._update_cost
update_cost(c, input_tokens, output_tokens) ==
    [c EXCEPT !.total_cost = @ + input_tokens * RateInput + output_tokens * RateOutput]

\* round(x, 4) of an amount in 1e-8 dollars
Round4(x) == ((x + 5000) \div 10000) * 10000

\* OpenRouterClient.get_cost_summary
get_cost_summary(c) ==
    [total_cost |-> Round4(c.total_cost), input_tokens |-> c.total_input_tokens,
     output_tokens |-> c.total_output_tokens,
     total_tokens |-> c.total_input_tokens + c.total_output_tokens]

\* OpenRouterClient._call_api at time t with the collaborator answering reply
\* after latency: the time the request is sent, the time the call ends, the
\* client afterwards, and the content returned or the exception raised
call_api(c, t, reply, latency) ==
    LET elapsed == t - c.last_request_time
        sent == IF elapsed < min_request_interval
                THEN t + (min_request_interval - elapsed) ELSE t
        done == sent + latency
        returned == reply.transport # "error"
        stamped == IF returned THEN [c EXCEPT !.last_request_time = done] ELSE c
        counted ==
            IF returned /\ reply.usage /\ c.track_costs
            THEN update_cost([stamped EXCEPT
                                 !.total_input_tokens = @ + PromptTokens,
                                 !.total_output_tokens = @ + CompletionTokens],
                             PromptTokens, CompletionTokens)
            ELSE stamped
    IN  [sent |-> sent, done |-> done, client |-> counted,
         raised |-> IF reply.transport = "error" THEN "APIError"
                    ELSE IF reply.transport = "no_choices" THEN "IndexError"
                    ELSE None]

MergedExample(id, code, language, description, sources, tags, notes, conf_type, confidence, variations) ==
    [id |-> id, code |-> code, language |-> language, description |-> description,
     sources |-> sources, tags |-> tags, notes |-> notes, conf_type |-> conf_type,
     confidence |-> confidence, variations |-> variations]

Ids(exs) == [i \in 1..Len(exs) |-> exs[i].id]

\* the record of merge_examples for a cluster of one
SingleExample(ex) ==
    MergedExample(<<"merged">> \o ex.id, ex.code, ex.language,
                  <<IF ex.context = None THEN "Code example" ELSE ex.context, "">>,
                  <<ex.id>>, ex.tags, <<"Single example, no duplicates found", "">>,
                  "num", 100, 0)

\* the fallback naming the first example alone as its source
MergeFailedFirstSource(exs, cluster_id, e) ==
    MergedExample(<<"merged">> \o cluster_id, exs[1].code, exs[1].language,
                  <<"Merge failed", e>>, <<exs[1].id>>, exs[1].tags,
                  <<"AI merge failed, using first example. Error", e>>,
                  "num", 50, Len(exs) - 1)

\* the fallback of merge_examples after an exception e
MergeFailed(exs, cluster_id, e) ==
    MergedExample(<<"merged">> \o cluster_id, exs[1].code, exs[1].language,
                  <<"Merge failed", e>>, Ids(exs), exs[1].tags,
                  <<"AI merge failed, using first example. Error", e>>,
                  "num", 50, Len(exs) - 1)

\* the fallback of _parse_merge_response after json.JSONDecodeError
JsonParseFailed(exs, cluster_id, shape) ==
    MergedExample(<<"merged">> \o cluster_id, exs[1].code, exs[1].language,
                  <<IF exs[1].context = None THEN "Merge failed" ELSE exs[1].context, "">>,
                  Ids(exs), exs[1].tags, <<"JSON parse failed. Raw response", shape>>,
                  "num", 60, Len(exs) - 1)

\* MergedExample(...) validates code, language, description: str; tags: List[str];
\* notes: Optional[str]; metadata (confidence) is Dict[str, Any], not validated
ValidFields(obj) ==
    /\ obj.canonical_code \in {"ok", "missing"}
    /\ obj.language \in {"ok", "missing"}
    /\ obj.description \in {"ok", "missing"}
    /\ obj.tags \in {"ok", "missing"}
    /\ obj.notes \in {"ok", "missing", "null"}

\* the record _parse_merge_response builds from a JSON object with data.get
FromData(obj, exs, cluster_id) ==
    MergedExample(<<"merged">> \o cluster_id,
                  IF obj.canonical_code = "ok" THEN DataCode ELSE exs[1].code,
                  IF obj.language = "ok" THEN "python3" ELSE "python",
                  <<IF obj.description = "ok" THEN "merged description" ELSE "", "">>,
                  Ids(exs),
                  IF obj.tags = "ok" THEN DataTags ELSE <<>>,
                  <<IF obj.notes = "ok" THEN "variations"
                    ELSE IF obj.notes = "null" THEN None ELSE "", "">>,
                  IF obj.conf_type = "missing" THEN "num" ELSE obj.conf_type,
                  IF obj.conf_type = "missing" THEN 80 ELSE obj.confidence,
                  Len(exs) - 1)

\* OpenRouterClient._parse_merge_response: the record returned, or the exception
\* that leaves the function (json.JSONDecodeError is handled inside)
parse_merge_response(reply, exs, cluster_id) ==
    IF reply.shape = "none"
    THEN [raised |-> "AttributeError", merged |-> MergeFailed(exs, cluster_id, "")]
    ELSE IF reply.shape \in {"empty", "text"}
    THEN [raised |-> None, merged |-> JsonParseFailed(exs, cluster_id, reply.shape)]
    ELSE IF reply.shape = "json_list"
    THEN [raised |-> "AttributeError", merged |-> MergeFailed(exs, cluster_id, "")]
    ELSE IF ~ValidFields(reply.obj)
    THEN [raised |-> "ValidationError", merged |-> MergeFailed(exs, cluster_id, "")]
    ELSE [raised |-> None, merged |-> FromData(reply.obj, exs, cluster_id)]

\* merge_examples without the shortcut for a cluster of one
merge_examples_always_call(c, t, exs, cluster_id, reply, latency) ==
    LET call == call_api(c, t, reply, latency)
    IN  [merged |-> IF Len(exs) = 1 THEN SingleExample(exs[1])
                    ELSE MergeFailed(exs, cluster_id, "APIError"),
         client |-> call.client, now |-> call.done, called |-> TRUE, sent |-> call.sent]

\* OpenRouterClient.merge_examples on a non-empty list at time t: the record
\* returned, the client and the clock afterwards, the request sent if any
merge_examples(c, t, exs, cluster_id, reply, latency) ==
    IF Len(exs) = 1
    THEN [merged |-> SingleExample(exs[1]), client |-> c, now |-> t, called |-> FALSE,
          sent |-> 0]
    ELSE LET call == call_api(c, t, reply, latency)
             parsed == parse_merge_response(reply, exs, cluster_id)
         IN  [merged |-> IF call.raised # None THEN MergeFailed(exs, cluster_id, call.raised)
                         ELSE IF parsed.raised # None
                         THEN MergeFailed(exs, cluster_id, parsed.raised)
                         ELSE parsed.merged,
              client |-> call.client, now |-> call.done, called |-> TRUE,
              sent |-> call.sent]

\* ------------------------------------------------------------------------
\* The pipeline: extraction, then Deduplicator.deduplicate, run after run
\* ------------------------------------------------------------------------
VARIABLES
    example_counter,      \* MarkdownExtractor.example_counter
    examples,             \* the CodeExamples extracted so far
    similarity_threshold, \* Deduplicator.similarity_threshold, in percent
    client,               \* the OpenRouterClient of the Deduplicator
    now,                  \* time.time(), in ms
    pc,                   \* "idle", or "merging" inside deduplicate
    clusters,             \* the clusters of the current (or last) run
    merged_examples,      \* the merged_examples of the current (or last) run
    results,              \* counts and cost_info of the result of each finished run
    requests,             \* history: the requests sent to the collaborator
    merge_log,            \* history: the reply behind each entry of merged_examples
    builder,              \* the ThreeLayerBuilder
    index_files,          \* the files in the index output directory
    builds,               \* history: input and files of every build_layers
    classified,           \* the tiers the three classifiers give one record
    attempts,             \* history: how each build_layers call ended
    code_example,         \* the CodeExample of dedup/src/models.py created, if any
    applied,              \* the last application of a text function: arguments, results
    pyramid_index,        \* the PyramidIndex of dedup/src/models.py
    pyramid_builds,       \* history: database and index of every build_from_database
    pyramid_builder,      \* the PyramidBuilder
    pyramid_outputs       \* history: input and files of every build_pyramid

dedupVars ==
    <<example_counter, examples, similarity_threshold, client, now, pc, clusters,
      merged_examples, results, requests, merge_log>>

indexVars == <<builder, index_files, builds, classified, attempts>>

libVars == <<code_example, applied, pyramid_index, pyramid_builds>>

builderVars == <<pyramid_builder, pyramid_outputs>>

vars == <<dedupVars, indexVars, libVars, builderVars>>

InitDedup ==
    /\ example_counter = 0
    /\ examples = <<>>
    /\ similarity_threshold \in Thresholds
    /\ client \in {NewClient(tc) : tc \in BOOLEAN}
    /\ now = StartTime
    /\ pc = "idle"
    /\ clusters = <<>>
    /\ merged_examples = <<>>
    /\ results = <<>>
    /\ requests = <<>>
    /\ merge_log = <<>>

\* MarkdownExtractor.extract_from_file, one fenced block: the id and the example
ExtractExample(snip) ==
    /\ pc = "idle"
    /\ Len(examples) < MaxExamples
    /\ example_counter' = example_counter + 1
    /\ examples' = Append(examples, CodeExample(generate_id(example_counter + 1, snip.code),
                                                snip))
    /\ UNCHANGED <<similarity_threshold, client, now, pc, clusters, merged_examples,
                   results, requests, merge_log, indexVars, libVars, builderVars>>

\* Deduplicator.deduplicate, step 1: the clusters
DeduplicateStart ==
    /\ pc = "idle"
    /\ Len(results) < MaxRuns
    /\ clusters' = find_clusters(examples, similarity_threshold)
    /\ merged_examples' = <<>>
    /\ merge_log' = <<>>
    /\ pc' = "merging"
    /\ UNCHANGED <<example_counter, examples, similarity_threshold, client, now, results,
                   requests, indexVars, libVars, builderVars>>

\* Deduplicator.deduplicate, step 2, one turn of the loop: merge_examples on the
\* next cluster; wait is the time gone by since the previous step
MergeCluster(reply, wait, latency) ==
    /\ pc = "merging"
    /\ Len(merged_examples) < Len(clusters)
    /\ LET cluster == clusters[Len(merged_examples) + 1]
           out == merge_examples(client, now + wait, cluster.examples, cluster.cluster_id,
                                 reply, latency)
       IN  /\ merged_examples' = Append(merged_examples, out.merged)
           /\ merge_log' = Append(merge_log, reply)
           /\ client' = out.client
           /\ now' = out.now
           /\ requests' = IF out.called
                          THEN Append(requests,
                                      [run |-> Len(results) + 1, sent |-> out.sent,
                                       returned |-> reply.transport # "error",
                                       usage |-> reply.usage])
                          ELSE requests
    /\ UNCHANGED <<example_counter, examples, similarity_threshold, pc, clusters, results,
                   indexVars, libVars, builderVars>>

MergeNext ==
    /\ pc = "merging"
    /\ Len(merged_examples) < Len(clusters)
    /\ IF Len(clusters[Len(merged_examples) + 1].examples) = 1
       THEN MergeCluster(NoReply, 0, 0)
       ELSE \E reply \in Replies, wait \in Waits, latency \in Latencies :
                MergeCluster(reply, wait, latency)

\* Deduplicator.deduplicate, step 3: the result
DeduplicateFinish ==
    /\ pc = "merging"
    /\ Len(merged_examples) = Len(clusters)
    /\ results' = Append(results, [original_count |-> Len(examples),
                                   merged_count |-> Len(merged_examples),
                                   cost_info |-> get_cost_summary(client)])
    /\ pc' = "idle"
    /\ UNCHANGED <<example_counter, examples, similarity_threshold, client, now, clusters,
                   merged_examples, requests, merge_log, indexVars, libVars, builderVars>>

NextDedup ==
    \/ \E snip \in Snippets : ExtractExample(snip)
    \/ DeduplicateStart
    \/ MergeNext
    \/ DeduplicateFinish

\* ------------------------------------------------------------------------
\* TagCompressor (three_layer_builder.py)
\* ------------------------------------------------------------------------
TagConnect == <<"c", "o", "n", "n", "e", "c", "t">>
TagTrade == <<"t", "r", "a", "d", "e">>
TagTread == <<"t", "r", "e", "a", "d">>
TagTrader == <<"t", "r", "a", "d", "e", "r">>

\* common_patterns of _build_compression_rules
common_patterns ==
    (<<"e", "r", "r", "o", "r">> :> <<"e", "r">>) @@ (<<"a", "s", "y", "n", "c">> :> <<"a", "s">>) @@ (TagConnect :> <<"c", "o">>)
    @@ (<<"d", "a", "t", "a">> :> <<"d", "a">>) @@ (<<"o", "r", "d", "e", "r">> :> <<"o", "r">>) @@ (<<"c", "o", "n", "t", "r", "a", "c", "t">> :> <<"c", "t">>)

\* s[:n]
Prefix(s, n) == SubSeq(s, 1, IF n < Len(s) THEN n ELSE Len(s))

\* the code _build_compression_rules first picks for a tag
ShortCode(tag) ==
    LET consonants == SelectSeq(tag, LAMBDA c : c \notin {"a", "e", "i", "o", "u"})
    IN  IF tag \in DOMAIN common_patterns THEN common_patterns[tag]
        ELSE IF Len(tag) <= 3 THEN tag
        ELSE IF Len(consonants) >= 3 THEN Prefix(consonants, 3)
        ELSE Prefix(tag, 3)

\* TagCompressor.__init__
NewCompressor == [tag_map |-> <<>>, reverse_map |-> <<>>, tag_counter |-> <<>>]

\* d[k] = v on a dict held as a function
DictPut(d, k, v) == [x \in DOMAIN d \cup {k} |-> IF x = k THEN v ELSE d[x]]

RECURSIVE build_compression_rules(_, _)
\* TagCompressor._build_compression_rules over the tags in the order given
build_compression_rules(comp, order) ==
    IF order = <<>> THEN comp
    ELSE LET tag == Head(order)
             first == ShortCode(tag)
             short == IF first \in DOMAIN comp.tag_map THEN Prefix(tag, 4) ELSE first
         IN  build_compression_rules(
                 [comp EXCEPT !.tag_map = DictPut(@, short, tag),
                              !.reverse_map = DictPut(@, tag, short)],
                 Tail(order))

RECURSIVE CountTags(_, _)
\* the loop of analyze_tags: tag_counter[tag.lower()] += 1 for every tag
CountTags(counter, tags) ==
    IF tags = <<>> THEN counter
    ELSE LET t == Lower(Head(tags))
         IN  CountTags(DictPut(counter, t, IF t \in DOMAIN counter THEN counter[t] + 1 ELSE 1),
                       Tail(tags))

RECURSIVE AllTags(_)
\* every tag of every example, in order
AllTags(exs) == IF exs = <<>> THEN <<>> ELSE Head(exs).tags \o AllTags(Tail(exs))

\* the orders sorted(tags, key=count, reverse=True) can give: the sort is
\* stable, and a set is iterated in an order that depends on the hash seed
SortedByCount(tags, counter) ==
    {order \in [1..Cardinality(tags) -> tags] :
        /\ \A i, j \in DOMAIN order : i # j => order[i] # order[j]
        /\ \A i, j \in DOMAIN order : i < j => counter[order[i]] >= counter[order[j]]}

\* TagCompressor.analyze_tags, with the order in which the tag set is sorted
analyze_tags(comp, exs, order) ==
    build_compression_rules([comp EXCEPT !.tag_counter = CountTags(@, AllTags(exs))], order)

\* TagCompressor.compress
compress(comp, tag) ==
    IF Lower(tag) \in DOMAIN comp.reverse_map THEN comp.reverse_map[Lower(tag)]
    ELSE Prefix(tag, 3)

\* TagCompressor.get_dictionary: per code the full term and its related terms
get_dictionary(comp) ==
    [short \in DOMAIN comp.tag_map |->
        LET full == comp.tag_map[short]
        IN  <<full>>
            \o (IF full # <<>> /\ full[Len(full)] = "s"
                THEN <<SubSeq(full, 1, Len(full) - 1)>> ELSE <<>>)
            \o (IF full = TagConnect THEN <<<<"c", "o", "n", "n", "e", "c", "t", "i", "o", "n">>, <<"c", "o", "n", "n", "e", "c", "t", "i", "n", "g">>>> ELSE <<>>)
            \o (IF full = <<"o", "r", "d", "e", "r">> THEN <<<<"o", "r", "d", "e", "r", "s">>, <<"o", "r", "d", "e", "r", "i", "n", "g">>, TagTrade>> ELSE <<>>)]

\* ------------------------------------------------------------------------
\* ThreeLayerBuilder
\* ------------------------------------------------------------------------
RECURSIVE Title(_, _)
\* str.title(): a letter after a non-letter is upper-cased, the others lowered
Title(s, afterLetter) ==
    IF s = <<>> THEN <<>>
    ELSE LET cased == CharOrd(Head(s)) >= CharOrd("A")
         IN  <<IF afterLetter THEN LowerChar(Head(s)) ELSE UpperChar(Head(s))>>
             \o Title(Tail(s), cased)

\* ThreeLayerBuilder._extract_operation
extract_operation(ex) ==
    IF ex.tags # <<>> THEN Title(ex.tags[1], FALSE)
    ELSE IF Split(ex.description) # <<>> THEN Title(Split(ex.description)[1], FALSE)
    ELSE <<"M", "i", "s", "c">>

\* ThreeLayerBuilder._determine_tier; confidence in percent
determine_tier(ex) ==
    IF Len(ex.sources) >= 2 /\ ex.conf_type # "num" THEN "TypeError"
    ELSE IF Len(ex.sources) >= 2 /\ ex.confidence >= 90 THEN "a1"
    ELSE IF Len(ex.sources) >= 1 THEN "a2"
    ELSE IF ex.conf_type # "num" THEN "TypeError"
    ELSE IF ex.confidence >= 70 THEN "a2"
    ELSE "a3"

\* ThreeLayerBuilder._calculate_depth
calculate_depth(exs) == Cardinality({determine_tier(exs[i]) : i \in 1..Len(exs)})

RECURSIVE GroupByOperation(_, _)
\* the dict operations of _build_apex_layer, as a list in insertion order
GroupByOperation(exs, groups) ==
    IF exs = <<>> THEN groups
    ELSE LET op == extract_operation(Head(exs))
         IN  GroupByOperation(
                 Tail(exs),
                 IF \E g \in 1..Len(groups) : groups[g].op = op
                 THEN [g \in 1..Len(groups) |->
                          IF groups[g].op = op
                          THEN [groups[g] EXCEPT !.examples = Append(@, Head(exs))]
                          ELSE groups[g]]
                 ELSE Append(groups, [op |-> op, examples |-> <<Head(exs)>>]))

RECURSIVE ApexEntries(_, _)
\* the entries op:total_mentions:num_examples:depth:first_line, line_counter
\* advancing by num_examples from one operation to the next
ApexEntries(groups, line_counter) ==
    IF groups = <<>> THEN <<>>
    ELSE <<<<Head(groups).op, Len(Head(groups).examples), Len(Head(groups).examples),
             calculate_depth(Head(groups).examples), line_counter>>>>
         \o ApexEntries(Tail(groups), line_counter + Len(Head(groups).examples))

RECURSIVE Digits(_)
\* str(n) for n >= 0
Digits(n) ==
    (IF n >= 10 THEN Digits(n \div 10) ELSE <<>>)
    \o <<<<"0", "1", "2", "3", "4", "5", "6", "7", "8", "9">>[(n % 10) + 1]>>

\* the text of an entry
EntryString(e) ==
    e[1] \o <<":">> \o Digits(e[2]) \o <<":">> \o Digits(e[3]) \o <<":">> \o Digits(e[4])
    \o <<":">> \o Digits(e[5])

\* a stable sort of seq by ascending key, key[i] being the key of seq[i]
SortStable(seq, key) ==
    LET rank(i) == Cardinality({j \in 1..Len(seq) :
                        key[j] < key[i] \/ (key[j] = key[i] /\ j < i)}) + 1
    IN  [k \in 1..Len(seq) |-> seq[CHOOSE i \in 1..Len(seq) : rank(i) = k]]

\* ThreeLayerBuilder._build_apex_layer: the two lists and the line counter after
build_apex_layer(exs, line_counter) ==
    LET entries == ApexEntries(GroupByOperation(exs, <<>>), line_counter)
        letters == {UpperChar(entries[i][1][1]) : i \in 1..Len(entries)}
        bucket(l) == SelectSeq(entries, LAMBDA e : UpperChar(e[1][1]) = l)
        StringRank(es) ==
            [i \in 1..Len(es) |->
                Cardinality({j \in 1..Len(es) :
                                StrLess(EntryString(es[j]), EntryString(es[i]))})]
    IN  [apex_popular |-> SortStable(entries, [i \in 1..Len(entries) |-> 0 - entries[i][2]]),
         apex_alpha |-> [l \in letters |-> SortStable(bucket(l), StringRank(bucket(l)))],
         line_counter |-> line_counter + Len(exs)]

RECURSIVE TagPositions(_, _, _, _)
\* idx of _build_tag_index: under every compressed tag the line numbers
TagPositions(comp, exs, line_num, idx) ==
    IF exs = <<>> THEN idx
    ELSE LET RECURSIVE AddTags(_, _)
             AddTags(tags, acc) ==
                 IF tags = <<>> THEN acc
                 ELSE LET short == compress(comp, Head(tags))
                      IN  AddTags(Tail(tags),
                                  DictPut(acc, short,
                                          IF short \in DOMAIN acc
                                          THEN Append(acc[short], line_num)
                                          ELSE <<line_num>>))
         IN  TagPositions(comp, Tail(exs), line_num + 1, AddTags(Head(exs).tags, idx))

\* ThreeLayerBuilder._build_tag_index
build_tag_index(comp, exs) ==
    [idx |-> TagPositions(comp, exs, 0, <<>>),
     meta |-> [line \in {i - 1 : i \in 1..Len(exs)} |->
                  LET ex == exs[line + 1]
                      tier == determine_tier(ex)
                  IN  <<tier, ex.confidence, Len(ex.sources),
                        IF tier = "a1" THEN "base" ELSE IF tier = "a2" THEN "var" ELSE "edge">>],
     dict |-> get_dictionary(comp)]

\* ThreeLayerBuilder._format_content
format_content(comp, ex) ==
    [id |-> ex.id, topic |-> Prefix(ex.description, 50), tier |-> determine_tier(ex),
     confidence |-> ex.confidence,
     tags |-> [i \in 1..Len(ex.tags) |-> compress(comp, ex.tags[i])],
     content |-> [code |-> ex.code, language |-> ex.language,
                  description |-> ex.description],
     stats |-> [mentions |-> Len(ex.sources), sources |-> ex.sources]]

\* ThreeLayerBuilder._build_content_tiers: the three tier files
build_content_tiers(comp, exs) ==
    LET contents == [i \in 1..Len(exs) |-> format_content(comp, exs[i])]
    IN  [t \in {"a1", "a2", "a3"} |-> SelectSeq(contents, LAMBDA c : c.tier = t)]

\* ThreeLayerBuilder.__init__
NewBuilder == [examples |-> <<>>, compressor |-> NewCompressor, line_counter |-> 0]

\* ThreeLayerBuilder.build_layers: the builder afterwards and the files written
build_layers(b, order) ==
    LET comp == analyze_tags(b.compressor, b.examples, order)
        apex == build_apex_layer(b.examples, b.line_counter)
    IN  [builder |-> [b EXCEPT !.compressor = comp, !.line_counter = apex.line_counter],
         files |-> [apex_popular |-> apex.apex_popular, apex_alpha |-> apex.apex_alpha,
                    tag_index |-> build_tag_index(comp, b.examples),
                    tiers |-> build_content_tiers(comp, b.examples)]]

\* ------------------------------------------------------------------------
\* The tier classifiers of the other two index builders
\* ------------------------------------------------------------------------
\* cluster_examples (build_pyramid_output.py): tier and similarity by occurrences
cluster_examples_tier(count) ==
    IF count >= 5 THEN <<"a0", 100>>
    ELSE IF count >= 3 THEN <<"a1", 95>>
    ELSE IF count >= 2 THEN <<"a2", 87>>
    ELSE <<"a3", 75>>

\* PyramidBuilder._create_clusters: the tier of a variant by its source count
create_clusters_tier(source_count) ==
    IF source_count >= 2 THEN "a1" ELSE IF source_count = 1 THEN "a2" ELSE "a3"

\* ------------------------------------------------------------------------
\* Index building: merged records are loaded and the layers built
\* ------------------------------------------------------------------------
MaxRecords == 3
MaxBuilds == 2
MaxInterrupted == 1
MaxSources == 6

\* records of merged_examples.json
MergedRecord(id, tags, description, nsources, confidence) ==
    [id |-> id, tags |-> tags, description |-> description,
     sources |-> [i \in 1..nsources |-> <<id, i>>], confidence |-> confidence,
     conf_type |-> "num", code |-> CodeAB, language |-> "python"]

MergedPool ==
    { MergedRecord("merged_cluster_0000", <<TagConnect, TagTrader>>, <<"c", "o", "n", "n", "e", "c", "t">>, 2, 95),
      MergedRecord("merged_cluster_0002", <<TagConnect, TagTread, TagTrade>>, <<"t", "r", "a", "d", "e">>, 2, 50),
      MergedRecord("merged_ex_0003", <<>>, <<"m", "i", "s", "c", " ", "d", "a", "t", "a">>, 1, 100) }

\* confidence values a record can carry, in percent
Confidences == {5 * k : k \in 0..20}

\* the files build_layers writes, in the order in which it writes them
FileNames == <<"apex_popular", "apex_alpha", "tag_index", "a1", "a2", "a3">>

\* the empty output directory; written_by names for each file the build_layers
\* call that wrote it, 0 for a file that does not exist
NoFiles == [apex_popular |-> <<>>, apex_alpha |-> <<>>,
            tag_index |-> [idx |-> <<>>, meta |-> <<>>, dict |-> <<>>],
            tiers |-> [t \in {"a1", "a2", "a3"} |-> <<>>],
            written_by |-> [f \in SeqToSet(FileNames) |-> 0]]

\* the output directory after the first n _save_json calls of a build
SaveFiles(old, new, n, attempt) ==
    LET saved == {FileNames[i] : i \in 1..n}
    IN  [apex_popular |-> IF "apex_popular" \in saved THEN new.apex_popular
                          ELSE old.apex_popular,
         apex_alpha |-> IF "apex_alpha" \in saved THEN new.apex_alpha ELSE old.apex_alpha,
         tag_index |-> IF "tag_index" \in saved THEN new.tag_index ELSE old.tag_index,
         tiers |-> [t \in {"a1", "a2", "a3"} |->
                       IF t \in saved THEN new.tiers[t] ELSE old.tiers[t]],
         written_by |-> [f \in SeqToSet(FileNames) |->
                            IF f \in saved THEN attempt ELSE old.written_by[f]]]

InitIndex ==
    /\ builder = NewBuilder
    /\ index_files = NoFiles
    /\ builds = <<>>
    /\ classified = <<>>
    /\ attempts = <<>>

\* builder = ThreeLayerBuilder()
CreateBuilder ==
    /\ builder # NewBuilder
    /\ builder' = NewBuilder
    /\ UNCHANGED <<index_files, builds, classified, attempts, dedupVars, libVars, builderVars>>

\* ThreeLayerBuilder.load_merged_examples
LoadMergedExamples(exs) ==
    /\ Len(attempts) < MaxBuilds
    /\ builder.examples # exs
    /\ builder' = [builder EXCEPT !.examples = exs]
    /\ UNCHANGED <<index_files, builds, classified, attempts, dedupVars, libVars, builderVars>>

\* ThreeLayerBuilder.build_layers
BuildLayers ==
    /\ Len(attempts) < MaxBuilds
    /\ \A i \in DOMAIN builder.examples : determine_tier(builder.examples[i]) # "TypeError"
    /\ \E order \in SortedByCount(
                        {Lower(t) : t \in SeqToSet(AllTags(builder.examples))},
                        CountTags(builder.compressor.tag_counter, AllTags(builder.examples))) :
           LET out == build_layers(builder, order)
           IN  /\ builder' = out.builder
               /\ index_files' = SaveFiles(index_files, out.files, Len(FileNames),
                                            Len(attempts) + 1)
               /\ attempts' = Append(attempts, "completed")
               /\ builds' = Append(builds, [input |-> builder.examples, files |-> out.files,
                                            compressor |-> out.builder.compressor,
                                            fresh |-> builder.line_counter = 0
                                                      /\ builder.compressor = NewCompressor])
    /\ UNCHANGED <<classified, dedupVars, libVars, builderVars>>

\* ThreeLayerBuilder.build_layers ending in an exception of _save_json (or the
\* process being terminated) after `saved` of its files were written
BuildLayersInterrupted(saved) ==
    /\ Len(attempts) < MaxBuilds
    /\ Cardinality({i \in DOMAIN attempts : attempts[i] = "interrupted"}) < MaxInterrupted
    /\ \E order \in SortedByCount(
                        {Lower(t) : t \in SeqToSet(AllTags(builder.examples))},
                        CountTags(builder.compressor.tag_counter, AllTags(builder.examples))) :
           LET out == build_layers(builder, order)
           IN  /\ builder' = out.builder
               /\ index_files' = SaveFiles(index_files, out.files, saved, Len(attempts) + 1)
               /\ attempts' = Append(attempts, "interrupted")
    /\ UNCHANGED <<builds, classified, dedupVars, libVars, builderVars>>

\* the three tier classifiers applied to a record with this many sources
ClassifyTiers(nsources, confidence) ==
    /\ classified' = <<[sources |-> nsources, confidence |-> confidence,
                        cluster_examples |-> cluster_examples_tier(nsources),
                        three_layer |-> determine_tier(MergedRecord("r", <<>>, <<>>, nsources,
                                                                    confidence)),
                        pyramid |-> create_clusters_tier(nsources)]>>
    /\ classified' # classified
    /\ UNCHANGED <<builder, index_files, builds, attempts, dedupVars, libVars, builderVars>>

\* ThreeLayerBuilder.build_layers ending in the TypeError of _determine_tier on
\* a record whose confidence is no number: the tags are analysed, the line
\* counter has passed the operations before the one of that record, and no
\* file is written
BuildLayersRaised ==
    /\ Len(attempts) < MaxBuilds
    /\ \E i \in DOMAIN builder.examples : determine_tier(builder.examples[i]) = "TypeError"
    /\ \E order \in SortedByCount(
                        {Lower(t) : t \in SeqToSet(AllTags(builder.examples))},
                        CountTags(builder.compressor.tag_counter, AllTags(builder.examples))) :
           LET groups == GroupByOperation(builder.examples, <<>>)
               Raises(g) == \E i \in DOMAIN groups[g].examples :
                                determine_tier(groups[g].examples[i]) = "TypeError"
               first == CHOOSE g \in DOMAIN groups :
                            Raises(g) /\ \A h \in 1..(g - 1) : ~Raises(h)
               passed[g \in 0..Len(groups)] ==
                   IF g = 0 THEN 0 ELSE passed[g - 1] + Len(groups[g].examples)
           IN  builder' = [builder EXCEPT
                              !.compressor = analyze_tags(builder.compressor,
                                                          builder.examples, order),
                              !.line_counter = @ + passed[first - 1]]
    /\ attempts' = Append(attempts, "raised")
    /\ UNCHANGED <<index_files, builds, classified, dedupVars, libVars, builderVars>>

\* the lists of distinct records of the pool, up to MaxRecords long
RecordLists ==
    UNION {{exs \in [1..n -> MergedPool] : \A i, j \in 1..n : i # j => exs[i] # exs[j]} :
              n \in 0..MaxRecords}

NextIndex ==
    \/ CreateBuilder
    \/ \E exs \in RecordLists : LoadMergedExamples(exs)
    \/ BuildLayers

\* building from records as the merge can return them: the confidence of a
\* parsed reply is whatever the reply carried, a number or not
NextIndexAnyConfidence ==
    LET pool == MergedPool \cup
                    {[MergedRecord("merged_cluster_0001", <<TagConnect>>, TagConnect, 2, 0)
                         EXCEPT !.conf_type = "str"]}
    IN  \/ \E exs \in UNION {{l \in [1..n -> pool] : \A i, j \in 1..n : i # j => l[i] # l[j]} :
                                  n \in 0..MaxRecords - 1} : LoadMergedExamples(exs)
        \/ BuildLayers
        \/ BuildLayersRaised

\* building with builds that can end early
NextIndexWrites ==
    \/ \E exs \in RecordLists : LoadMergedExamples(exs)
    \/ BuildLayers
    \/ \E saved \in 0..(Len(FileNames) - 1) : BuildLayersInterrupted(saved)

\* the tier classifiers on their own, over every count and confidence
NextTiers == \E n \in 1..MaxSources, c \in Confidences : ClassifyTiers(n, c)

\* ------------------------------------------------------------------------
\* CodeExample of dedup/src/models.py
\* ------------------------------------------------------------------------
MaxSourceLocations == 3

RECURSIVE SplitLines(_, _)
\* code.split("\n")
SplitLines(s, cur) ==
    IF s = <<>> THEN <<cur>>
    ELSE IF Head(s) = "\n" THEN <<cur>> \o SplitLines(Tail(s), <<>>)
    ELSE SplitLines(Tail(s), Append(cur, Head(s)))

RECURSIVE JoinLines(_)
\* "\n".join(lines)
JoinLines(lines) ==
    IF lines = <<>> THEN <<>>
    ELSE IF Len(lines) = 1 THEN lines[1]
    ELSE lines[1] \o <<"\n">> \o JoinLines(Tail(lines))

\* CodeExample._normalize_code: comments removed, blank lines dropped, every
\* line right-stripped
CodeExample_normalize_code(code) ==
    LET lines == SplitLines(StripComments(code, FALSE), <<>>)
        kept == SelectSeq(lines, LAMBDA line : Strip(line) # <<>>)
    IN  JoinLines([i \in 1..Len(kept) |-> RStrip(kept[i])])

\* CodeExample._hash_code: the SHA256 digest, taken as free of collisions
CodeExample_hash_code(code) == <<"sha256", code>>

\* source=None
NoSource == [file |-> None, line_start |-> 0, line_end |-> 0]

\* SourceLocation objects
SourceLocations ==
    { [file |-> "a.md", line_start |-> 0, line_end |-> 3],
      [file |-> "b.md", line_start |-> 7, line_end |-> 7] }

\* CodeExample.from_code; occurrence_count takes its default
from_code(code, source) ==
    [code |-> code, language |-> "python",
     normalized_code |-> CodeExample_normalize_code(code),
     code_hash |-> CodeExample_hash_code(CodeExample_normalize_code(code)),
     sources |-> IF source # NoSource THEN <<source>> ELSE <<>>,
     occurrence_count |-> 1]

\* CodeExample.add_source
add_source(ex, source) ==
    [ex EXCEPT !.sources = Append(@, source), !.occurrence_count = @ + 1]

\* ------------------------------------------------------------------------
\* PyramidIndex of dedup/src/models.py
\* ------------------------------------------------------------------------
MaxClusters == 2
MaxIndexBuilds == 2

\* a CodeExample as the index reads it; tier None on a variant means a1
IndexedExample(id, occurrence_count, tier) ==
    [id |-> id, occurrence_count |-> occurrence_count, tier |-> tier]

\* ExampleCluster objects
ExampleCluster(cluster_id, operation, canonical, variants) ==
    [cluster_id |-> cluster_id, operation |-> operation, canonical |-> canonical,
     variants |-> variants]

ExampleClusters ==
    { ExampleCluster("cluster_1", "connect", IndexedExample("ex_a", 3, None),
                     <<IndexedExample("ex_b", 1, None)>>),
      ExampleCluster("cluster_2", "place_order", IndexedExample("ex_c", 1, None), <<>>),
      ExampleCluster("cluster_3", "connect", IndexedExample("ex_d", 2, None),
                     <<IndexedExample("ex_e", 1, "a2"), IndexedExample("ex_f", 2, "a2")>>) }

\* DedupDatabase objects: example_clusters in insertion order, and the metrics
\* (DedupMetrics: total_examples_before, deduplication_ratio in hundredths)
Databases ==
    LET MetricsPool == { [total_examples_before |-> 0, deduplication_ratio |-> 0],
                         [total_examples_before |-> 10, deduplication_ratio |-> 4000] } IN
    { [example_clusters |-> cs, metrics |-> mt] :
        cs \in UNION {{c \in [1..n -> ExampleClusters] :
                          \A i, j \in 1..n : i # j => c[i] # c[j]} : n \in 0..MaxClusters},
        mt \in MetricsPool }

RECURSIVE SumOccurrences(_)
SumOccurrences(exs) ==
    IF exs = <<>> THEN 0 ELSE Head(exs).occurrence_count + SumOccurrences(Tail(exs))

\* ExampleCluster.total_occurrences
total_occurrences(cluster) ==
    cluster.canonical.occurrence_count + SumOccurrences(cluster.variants)

\* variant.tier or "a1"
TierOf(variant) == IF variant.tier = None THEN "a1" ELSE variant.tier

\* VariantCluster.from_example_cluster
from_example_cluster(cluster, operation) ==
    LET info(v) == [example_id |-> v.id, occurrences |-> v.occurrence_count]
        InTier(t) == SelectSeq(cluster.variants, LAMBDA v : TierOf(v) = t)
        tiers == [t \in {"a0", "a1", "a2", "a3"} |->
                     IF t = "a0" THEN <<info(cluster.canonical)>>
                     ELSE [i \in 1..Len(InTier(t)) |-> info(InTier(t)[i])]]
    IN  [cluster_id |-> cluster.cluster_id, operation |-> operation,
         canonical_id |-> cluster.canonical.id,
         total_occurrences |-> total_occurrences(cluster),
         tiers |-> tiers,
         navigation |-> [parent |-> <<"apex_index.json#", operation>>,
                         canonical |-> <<"canonical_examples.json#", cluster.canonical.id>>,
                         variants |-> [t \in {u \in {"a1", "a2", "a3"} : tiers[u] # <<>>} |->
                                          Len(tiers[t])]]]

\* ApexIndex()
NewApexIndex ==
    [total_operations |-> 0, operations |-> <<>>,
     quick_stats |-> [most_common |-> <<>>, avg_variants_per_operation |-> 0,
                      deduplication_ratio |-> 0]]

\* ApexIndex.add_operation
add_operation(apex, operation, canonical_id, cluster) ==
    LET tiers == {"a0"} \cup {TierOf(cluster.variants[i]) : i \in 1..Len(cluster.variants)}
        tier_dist ==
            [t \in tiers |->
                (IF t = "a0" THEN cluster.canonical.occurrence_count ELSE 0)
                + SumOccurrences(SelectSeq(cluster.variants, LAMBDA v : TierOf(v) = t))]
        operations ==
            DictPut(apex.operations, operation,
                    [canonical_id |-> canonical_id,
                     total_occurrences |-> total_occurrences(cluster),
                     variant_count |-> Len(cluster.variants),
                     tier_distribution |-> tier_dist,
                     file_pointer |-> <<"canonical_examples.json#", canonical_id>>])
    IN  [apex EXCEPT !.operations = operations,
                     !.total_operations = Cardinality(DOMAIN operations)]

\* PyramidIndex(apex=ApexIndex())
NewPyramidIndex == [apex |-> NewApexIndex, canonicals |-> <<>>, clusters |-> <<>>]

RECURSIVE ProcessClusters(_, _, _)
\* the loop of build_from_database over db.example_clusters.values()
ProcessClusters(index, cs, order) ==
    IF cs = <<>> THEN [index |-> index, order |-> order]
    ELSE LET cluster == Head(cs)
         IN  ProcessClusters(
                 [apex |-> add_operation(index.apex, cluster.operation,
                                         cluster.canonical.id, cluster),
                  canonicals |-> DictPut(index.canonicals, cluster.canonical.id,
                                         cluster.canonical),
                  clusters |-> DictPut(index.clusters, cluster.cluster_id,
                                       from_example_cluster(cluster, cluster.operation))],
                 Tail(cs),
                 IF \E i \in 1..Len(order) : order[i] = cluster.operation
                 THEN order ELSE Append(order, cluster.operation))

\* PyramidIndex._calculate_stats; order is the insertion order of apex.operations
calculate_stats(index, order, db) ==
    LET ops == index.apex.operations
        \* round(x, 2) of a quotient, in hundredths
        Round2(num, den) == (200 * num + den) \div (2 * den)
        ranked == SortStable(order, [i \in 1..Len(order) |-> 0 - ops[order[i]].total_occurrences])
        variant_sum[i \in 0..Len(order)] ==
            IF i = 0 THEN 0 ELSE variant_sum[i - 1] + ops[order[i]].variant_count
        stats1 == [index.apex.quick_stats EXCEPT !.most_common = Prefix(ranked, 10)]
        stats2 == IF index.apex.total_operations > 0
                  THEN [stats1 EXCEPT !.avg_variants_per_operation =
                            Round2(variant_sum[Len(order)], index.apex.total_operations)]
                  ELSE stats1
        stats3 == IF db.metrics.total_examples_before > 0
                  THEN [stats2 EXCEPT !.deduplication_ratio = db.metrics.deduplication_ratio]
                  ELSE stats2
    IN  [index EXCEPT !.apex.quick_stats = stats3]

\* PyramidIndex.build_from_database: self.apex is replaced, the two dicts are kept
build_from_database(index, db) ==
    LET done == ProcessClusters([index EXCEPT !.apex = NewApexIndex], db.example_clusters, <<>>)
    IN  calculate_stats(done.index, done.order, db)

\* ------------------------------------------------------------------------
\* extract_code_blocks and cluster_examples of dedup/scripts/build_pyramid_output.py
\* ------------------------------------------------------------------------
MaxRawExamples == 4

\* the dict extract_code_blocks appends for one fenced block; operation is the
\* first keyword of the chain found in the code, the MD5 prefix is taken as
\* free of collisions
extract_code_block(code, operation, source) ==
    LET normalized == Lower(CollapseWhitespace(Strip(code), FALSE))
    IN  [id |-> <<"ex", "md5", normalized>>, operation |-> operation, code |-> Strip(code),
         source |-> source, normalized |-> normalized]

\* all_examples: lists of distinct dicts, up to MaxRawExamples long
RawExampleLists ==
    LET pool == { extract_code_block(CodeAB, "connect", "a.md"),
                  extract_code_block(CodeAB, "connect", "b.md"),
                  extract_code_block(CodeABComment, "connect", "a.md"),
                  extract_code_block(CodeABC, "placeOrder", "a.md"),
                  extract_code_block(CodeABC, "placeOrder", "b.md") }
    IN  UNION {{exs \in [1..n -> pool] : \A i, j \in 1..n : i # j => exs[i] # exs[j]} :
                  n \in 0..MaxRawExamples}

\* cluster_examples: the result, and the dicts of the list passed in as they
\* are after the call (the first dict of every hash group is written to)
cluster_examples(exs) ==
    LET n == Len(exs)
        SameGroup(i, j) == /\ exs[i].operation = exs[j].operation
                           /\ exs[i].normalized = exs[j].normalized
        IsCanonical(i) == \A j \in 1..(i - 1) : ~SameGroup(i, j)
        count(i) == Cardinality({j \in 1..n : SameGroup(i, j)})
        after == [i \in 1..n |->
                     IF IsCanonical(i)
                     THEN DictPut(DictPut(DictPut(exs[i], "occurrences", count(i)),
                                          "tier", cluster_examples_tier(count(i))[1]),
                                  "similarity", cluster_examples_tier(count(i))[2])
                     ELSE exs[i]]
        InTier(op, t) == SelectSeq([i \in 1..n |-> i],
                                   LAMBDA i : /\ IsCanonical(i)
                                              /\ exs[i].operation = op
                                              /\ cluster_examples_tier(count(i))[1] = t)
    IN  [result |-> [op \in {exs[i].operation : i \in 1..n} |->
                        [t \in {"a0", "a1", "a2", "a3"} |->
                            [k \in 1..Len(InTier(op, t)) |-> after[InTier(op, t)[k]]]]],
         examples |-> after]

\* clusters = cluster_examples(all_examples)
ClusterExamples(exs) ==
    /\ applied' = <<[fn |-> "cluster_examples", examples |-> exs,
                     examples_after |-> cluster_examples(exs).examples,
                     result |-> cluster_examples(exs).result]>>
    /\ UNCHANGED <<code_example, pyramid_index, pyramid_builds, dedupVars, indexVars, builderVars>>

NextPyramidOutput == \E exs \in RawExampleLists : ClusterExamples(exs)

\* ------------------------------------------------------------------------
\* The text functions applied to snippet texts
\* ------------------------------------------------------------------------
MaxTextLen == 3

\* self._normalize_code(code), and the same on its result
NormalizeCode(code) ==
    /\ applied' = <<[fn |-> "normalize_code", code |-> code,
                     once |-> normalize_code(code),
                     twice |-> normalize_code(normalize_code(code))]>>
    /\ UNCHANGED <<code_example, pyramid_index, pyramid_builds, dedupVars, indexVars, builderVars>>

\* CodeExample._normalize_code(code) and _hash_code, and the same on the result
CodeExampleNormalize(code) ==
    /\ applied' =
           <<[fn |-> "CodeExample_normalize_code", code |-> code,
              once |-> CodeExample_normalize_code(code),
              twice |-> CodeExample_normalize_code(CodeExample_normalize_code(code)),
              hash_once |-> CodeExample_hash_code(CodeExample_normalize_code(code)),
              hash_twice |-> CodeExample_hash_code(
                                 CodeExample_normalize_code(CodeExample_normalize_code(code)))]>>
    /\ UNCHANGED <<code_example, pyramid_index, pyramid_builds, dedupVars, indexVars, builderVars>>

\* self._calculate_similarity on a pair, both ways round
CalculateSimilarity(code1, code2) ==
    /\ applied' = <<[fn |-> "calculate_similarity", code1 |-> code1, code2 |-> code2,
                     forward |-> calculate_similarity(code1, code2),
                     backward |-> calculate_similarity(code2, code1)]>>
    /\ UNCHANGED <<code_example, pyramid_index, pyramid_builds, dedupVars, indexVars, builderVars>>

\* snippet texts: a letter in both cases, blank, line break, comment sign; the
\* snippets compared with each other are those of the extractor and three more
NextText ==
    LET Texts == UNION {[1..n -> {"a", "A", " ", "\n", "#"}] : n \in 0..MaxTextLen}
        SimilarityInputs == SeqToSet(CodePool) \cup {<<>>, <<"b", " ", "a">>, <<" ", "\n">>}
    IN  \/ \E code \in Texts : NormalizeCode(code)
        \/ \E code \in Texts : CodeExampleNormalize(code)
        \/ \E code1, code2 \in SimilarityInputs : CalculateSimilarity(code1, code2)

\* ------------------------------------------------------------------------
\* PyramidBuilder (dedup_new/src/pyramid_builder.py)
\* ------------------------------------------------------------------------
MaxPyramidBuilds == 2

\* PyramidBuilder._extract_operation: none of the patterns of the table occurs
\* in the code of the records used here, so the first tag decides, else "misc"
PyramidBuilder_extract_operation(ex) ==
    IF ex.tags # <<>> THEN ex.tags[1] ELSE <<"m", "i", "s", "c">>

RECURSIVE organize_by_operation(_, _)
\* PyramidBuilder._organize_by_operation: self.operations, a defaultdict(list),
\* as a list in insertion order, after the examples are appended to it
organize_by_operation(operations, exs) ==
    IF exs = <<>> THEN operations
    ELSE LET op == PyramidBuilder_extract_operation(Head(exs))
         IN  organize_by_operation(
                 IF \E g \in DOMAIN operations : operations[g].op = op
                 THEN [g \in DOMAIN operations |->
                          IF operations[g].op = op
                          THEN [operations[g] EXCEPT !.examples = Append(@, Head(exs))]
                          ELSE operations[g]]
                 ELSE Append(operations, [op |-> op, examples |-> <<Head(exs)>>]),
                 Tail(exs))

\* PyramidBuilder._create_clusters: the clusters in the order of self.operations
create_clusters(operations) ==
    [g \in DOMAIN operations |->
        LET op_examples == operations[g].examples
            variants == Tail(op_examples)
            InTier(t) == SelectSeq(variants,
                                   LAMBDA v : create_clusters_tier(Len(v.sources)) = t)
        IN  [cluster_id |-> <<"cluster">> \o operations[g].op, operation |-> operations[g].op,
             canonical_id |-> op_examples[1].id, total_occurrences |-> Len(op_examples),
             tiers |-> [a0 |-> <<op_examples[1]>>, a1 |-> InTier("a1"), a2 |-> InTier("a2"),
                        a3 |-> InTier("a3")]]]

\* PyramidBuilder._build_apex_index
build_apex_index(cls) ==
    LET tier_dist(c) == [a0 |-> 1, a1 |-> Len(c.tiers.a1), a2 |-> Len(c.tiers.a2),
                         a3 |-> Len(c.tiers.a3)]
        entry(c) == [canonical_id |-> c.canonical_id,
                     total_occurrences |-> c.total_occurrences,
                     variant_count |-> Len(c.tiers.a1) + Len(c.tiers.a2) + Len(c.tiers.a3),
                     confidence |-> 100, tier_distribution |-> tier_dist(c),
                     file_pointer |-> <<"canonical_examples.json#", c.canonical_id>>]
        totals[g \in 0..Len(cls)] ==
            IF g = 0 THEN [examples |-> 0, variants |-> 0]
            ELSE [examples |-> totals[g - 1].examples + cls[g].total_occurrences,
                  variants |-> totals[g - 1].variants + entry(cls[g]).variant_count]
        total_examples == totals[Len(cls)].examples
        by_count == SortStable(cls, [g \in DOMAIN cls |-> 0 - cls[g].total_occurrences])
    IN  [total_operations |-> Len(cls), total_examples |-> total_examples,
         total_canonical |-> Len(cls),
         operations |-> [op \in {cls[g].operation : g \in DOMAIN cls} |->
                            entry(cls[CHOOSE g \in DOMAIN cls : cls[g].operation = op])],
         quick_stats |->
             [most_common |-> Prefix([g \in DOMAIN by_count |-> by_count[g].operation], 10),
              avg_variants_per_operation |->
                  IF cls # <<>> THEN Frac(totals[Len(cls)].variants, Len(cls)) ELSE <<0, 1>>,
              deduplication_ratio |->
                  IF total_examples > 0 THEN Frac(total_examples - Len(cls), total_examples)
                  ELSE <<0, 1>>]]

\* PyramidBuilder._build_canonical_examples: examples, keyed by canonical id,
\* a later cluster with the same canonical id replacing the earlier entry
build_canonical_examples(cls) ==
    LET entry(c) ==
            [id |-> c.canonical_id, operation |-> c.operation, code |-> c.tiers.a0[1].code,
             occurrence_count |-> 1, tier |-> "a0", sources |-> c.tiers.a0[1].sources,
             variants |-> [t \in {"a1", "a2", "a3"} |-> Ids(c.tiers[t])],
             variant_count |-> Len(c.tiers.a1) + Len(c.tiers.a2) + Len(c.tiers.a3),
             total_occurrences |-> c.total_occurrences,
             file_pointer |-> <<"variant_clusters.json#", c.cluster_id>>]
        by_id == [id \in {cls[g].canonical_id : g \in DOMAIN cls} |->
                        entry(cls[CHOOSE g \in DOMAIN cls :
                                      /\ cls[g].canonical_id = id
                                      /\ \A h \in DOMAIN cls :
                                             cls[h].canonical_id = id => h <= g])]
    IN  [count |-> Cardinality(DOMAIN by_id), examples |-> by_id]

\* PyramidBuilder._build_variant_clusters: clusters, keyed by cluster id
build_variant_clusters(cls) ==
    LET info(v) == [example_id |-> v.id, occurrences |-> Len(v.sources), code |-> v.code]
        entry(c) ==
            [cluster_id |-> c.cluster_id, operation |-> c.operation,
             canonical_id |-> c.canonical_id, total_occurrences |-> c.total_occurrences,
             tiers |-> [t \in {"a0", "a1", "a2", "a3"} |->
                           IF t = "a0"
                           THEN <<[example_id |-> c.canonical_id, occurrences |-> 1,
                                   code |-> c.tiers.a0[1].code]>>
                           ELSE [k \in DOMAIN c.tiers[t] |-> info(c.tiers[t][k])]],
             navigation |-> [parent |-> <<"apex_index.json#", c.operation>>,
                             canonical |-> <<"canonical_examples.json#", c.canonical_id>>,
                             variants |-> [t \in {"a1", "a2", "a3"} |-> Len(c.tiers[t])]]]
        by_cluster_id == [id \in {cls[g].cluster_id : g \in DOMAIN cls} |->
                         entry(cls[CHOOSE g \in DOMAIN cls : cls[g].cluster_id = id])]
    IN  [count |-> Cardinality(DOMAIN by_cluster_id), clusters |-> by_cluster_id]

\* PyramidBuilder.build_pyramid: the builder afterwards and the files written
build_pyramid(b) ==
    LET operations == organize_by_operation(b.operations, b.examples)
        cls == create_clusters(operations)
    IN  [builder |-> [b EXCEPT !.operations = operations],
         files |-> [apex_index |-> build_apex_index(cls),
                    canonical_examples |-> build_canonical_examples(cls),
                    variant_clusters |-> build_variant_clusters(cls)]]

\* PyramidBuilder.__init__
NewPyramidBuilder == [examples |-> <<>>, operations |-> <<>>]

\* builder = PyramidBuilder()
CreatePyramidBuilder ==
    /\ pyramid_builder # NewPyramidBuilder
    /\ pyramid_builder' = NewPyramidBuilder
    /\ UNCHANGED <<pyramid_outputs, dedupVars, indexVars, libVars>>

\* PyramidBuilder.load_merged_examples
LoadPyramidExamples(exs) ==
    /\ Len(pyramid_outputs) < MaxPyramidBuilds
    /\ pyramid_builder.examples # exs
    /\ pyramid_builder' = [pyramid_builder EXCEPT !.examples = exs]
    /\ UNCHANGED <<pyramid_outputs, dedupVars, indexVars, libVars>>

\* PyramidBuilder.build_pyramid
BuildPyramid ==
    /\ Len(pyramid_outputs) < MaxPyramidBuilds
    /\ pyramid_builder' = build_pyramid(pyramid_builder).builder
    /\ pyramid_outputs' = Append(pyramid_outputs,
                                 [input |-> pyramid_builder.examples,
                                  fresh |-> pyramid_builder.operations = <<>>,
                                  files |-> build_pyramid(pyramid_builder).files])
    /\ UNCHANGED <<dedupVars, indexVars, libVars>>

NextPyramidBuilder ==
    \/ CreatePyramidBuilder
    \/ \E exs \in RecordLists : LoadPyramidExamples(exs)
    \/ BuildPyramid

InitLib ==
    /\ pyramid_builder = NewPyramidBuilder
    /\ pyramid_outputs = <<>>
    /\ code_example = <<>>
    /\ applied = <<>>
    /\ pyramid_index = NewPyramidIndex
    /\ pyramid_builds = <<>>

\* index = PyramidIndex(apex=ApexIndex())
CreatePyramidIndex ==
    /\ pyramid_index # NewPyramidIndex
    /\ pyramid_index' = NewPyramidIndex
    /\ UNCHANGED <<code_example, applied, pyramid_builds, dedupVars, indexVars, builderVars>>

\* index.build_from_database(db)
BuildFromDatabase(db) ==
    /\ Len(pyramid_builds) < MaxIndexBuilds
    /\ pyramid_index' = build_from_database(pyramid_index, db)
    /\ pyramid_builds' = Append(pyramid_builds, [db |-> db, index |-> pyramid_index'])
    /\ UNCHANGED <<code_example, applied, dedupVars, indexVars, builderVars>>

NextPyramid ==
    \/ CreatePyramidIndex
    \/ \E db \in Databases : BuildFromDatabase(db)

\* example = CodeExample.from_code(code) or CodeExample.from_code(code, source=source)
FromCode(code, source) ==
    /\ code_example = <<>>
    /\ code_example' = <<from_code(code, source)>>
    /\ UNCHANGED <<applied, pyramid_index, pyramid_builds, dedupVars, indexVars, builderVars>>

\* example.add_source(source)
AddSource(source) ==
    /\ code_example # <<>>
    /\ Len(code_example[1].sources) < MaxSourceLocations
    /\ code_example' = <<add_source(code_example[1], source)>>
    /\ UNCHANGED <<applied, pyramid_index, pyramid_builds, dedupVars, indexVars, builderVars>>

NextModels ==
    \/ \E code \in SeqToSet(CodePool), source \in SourceLocations \cup {NoSource} :
           FromCode(code, source)
    \/ \E source \in SourceLocations : AddSource(source)

Init == InitDedup /\ InitIndex /\ InitLib
Next == NextDedup
Spec == Init /\ [][Next]_vars

InitIndexOnly ==
    /\ InitIndex
    /\ InitLib
    /\ InitDedup
    /\ similarity_threshold = 85
    /\ client = NewClient(TRUE)

SpecIndex == InitIndexOnly /\ [][NextIndex]_vars

SpecIndexAnyConfidence == InitIndexOnly /\ [][NextIndexAnyConfidence]_vars

SpecPyramidBuilder == InitIndexOnly /\ [][NextPyramidBuilder]_vars

SpecTiers == InitIndexOnly /\ [][NextTiers]_vars

SpecIndexWrites == InitIndexOnly /\ [][NextIndexWrites]_vars

SpecPyramid == InitIndexOnly /\ [][NextPyramid]_vars

SpecPyramidOutput == InitIndexOnly /\ [][NextPyramidOutput]_vars

SpecText == InitIndexOnly /\ [][NextText]_vars

SpecModels == InitIndexOnly /\ [][NextModels]_vars

\* ------------------------------------------------------------------------
\* Properties of clustering
\* ------------------------------------------------------------------------
\* the positions (k, m) at which the example with this id sits in the clusters
PlacesOf(id) ==
    {km \in (1..Len(clusters)) \X (1..MaxExamples + 1) :
        /\ km[2] <= Len(clusters[km[1]].examples)
        /\ clusters[km[1]].examples[km[2]].id = id}

RECURSIVE SumSizes(_)
SumSizes(cls) == IF cls = <<>> THEN 0 ELSE Len(Head(cls).examples) + SumSizes(Tail(cls))

\* C1: while deduplicate works on the clusters _find_clusters returned, every
\* input example is a member of exactly one cluster, every cluster member is an
\* input example, and the cluster sizes sum to len(examples).
C1_ClustersPartitionInput ==
    pc = "merging" =>
        /\ \A i \in 1..Len(examples) : Cardinality(PlacesOf(examples[i].id)) = 1
        /\ \A k \in 1..Len(clusters) : \A m \in 1..Len(clusters[k].examples) :
               \E i \in 1..Len(examples) : examples[i] = clusters[k].examples[m]
        /\ SumSizes(clusters) = Len(examples)

\* a run is clustering three examples into a cluster of two and a singleton
C1_Witness ==
    /\ pc = "merging"
    /\ Len(examples) = 3
    /\ Len(clusters) = 2
    /\ \E k \in 1..2 : Len(clusters[k].examples) = 2

\* C2: two examples whose normalized code is identical are in the same cluster,
\* whatever the threshold and the input order.
C2_IdenticalNormalizedSameCluster ==
    pc = "merging" =>
        \A i, j \in 1..Len(examples) :
            normalize_code(examples[i].code) = normalize_code(examples[j].code) =>
                \E k \in 1..Len(clusters) :
                    /\ \E m \in 1..Len(clusters[k].examples) :
                           clusters[k].examples[m].id = examples[i].id
                    /\ \E m \in 1..Len(clusters[k].examples) :
                           clusters[k].examples[m].id = examples[j].id

\* ------------------------------------------------------------------------
\* Properties of the merge client
\* ------------------------------------------------------------------------
IsFallback(rec) ==
    rec.notes[1] \in {"AI merge failed, using first example. Error",
                      "JSON parse failed. Raw response"}

\* the collaborator failures C3 lists: transport error, empty content, text
\* that is not JSON, JSON that is no object, fields of the wrong type
Misbehaved(reply) ==
    \/ reply.transport = "error"
    \/ reply.shape \in {"none", "empty", "text", "json_list"}
    \/ /\ reply.shape \in {"object", "fenced_object"}
       /\ \/ "badtype" \in {reply.obj.canonical_code, reply.obj.language,
                            reply.obj.description, reply.obj.tags, reply.obj.notes}
          \/ reply.obj.conf_type = "str"

\* C3: for a cluster of two or more, whatever failure the collaborator shows,
\* merge_examples returns a record with the first member's raw code, a
\* confidence of at most 0.6 and non-empty notes that record the failure.
C3_FallbackOnAnyFailure ==
    \A k \in 1..Len(merged_examples) :
        (Len(clusters[k].examples) >= 2 /\ Misbehaved(merge_log[k])) =>
            /\ merged_examples[k].code = clusters[k].examples[1].code
            /\ merged_examples[k].conf_type = "num"
            /\ merged_examples[k].confidence <= 60
            /\ IsFallback(merged_examples[k])

C5_RequestsSpaced ==
    \A i \in 1..(Len(requests) - 1) :
        requests[i + 1].sent - requests[i].sent >= min_request_interval

\* tokens reported by the replies received during run k
RunRequests(k) ==
    {i \in 1..Len(requests) :
        requests[i].run = k /\ requests[i].returned /\ requests[i].usage}

RunInputTokens(k) == IF client.track_costs THEN PromptTokens * Cardinality(RunRequests(k)) ELSE 0

RunOutputTokens(k) ==
    IF client.track_costs THEN CompletionTokens * Cardinality(RunRequests(k)) ELSE 0

\* C6: the cost_info of each run's result counts only the collaborator calls
\* made during that run.
C6_CostInfoPerRun ==
    \A k \in 1..Len(results) :
        /\ results[k].cost_info.input_tokens = RunInputTokens(k)
        /\ results[k].cost_info.output_tokens = RunOutputTokens(k)
        /\ results[k].cost_info.total_cost =
               Round4(RunInputTokens(k) * RateInput + RunOutputTokens(k) * RateOutput)

\* the reply is one JSON object with all six fields and a confidence in [0, 1]
WellFormed(reply) ==
    /\ reply.transport = "ok"
    /\ reply.shape \in {"object", "fenced_object"}
    /\ reply.obj.canonical_code = "ok"
    /\ reply.obj.language = "ok"
    /\ reply.obj.description = "ok"
    /\ reply.obj.tags = "ok"
    /\ reply.obj.notes = "ok"
    /\ reply.obj.conf_type = "num"
    /\ reply.obj.confidence >= 0
    /\ reply.obj.confidence <= 100

\* C10: a reply is accepted as a merge only if it is one JSON object with all
\* six fields and a confidence in [0, 1]; any other reply gives the fallback
\* record, so every record returned has a confidence in [0, 1].
C10_OnlyWellFormedAccepted ==
    \A k \in 1..Len(merged_examples) :
        /\ (Len(clusters[k].examples) >= 2 /\ ~WellFormed(merge_log[k])) =>
               IsFallback(merged_examples[k])
        /\ merged_examples[k].conf_type = "num"
        /\ merged_examples[k].confidence >= 0
        /\ merged_examples[k].confidence <= 100

\* C7: in the index one build produces, every canonical_pointer of an
\* apex_popular or apex_alpha entry and every position listed in
\* tag_index.idx resolves to exactly one record of the tiered content stores
\* (the record at that ordinal position, in the store its metadata names), and
\* the record an apex pointer resolves to belongs to the topic of the entry.
C7_PointersResolve ==
    \A k \in DOMAIN builds :
        LET input == builds[k].input
            files == builds[k].files
            meta == files.tag_index.meta
            idx == files.tag_index.idx
            Resolves(p) ==
                /\ p \in DOMAIN meta
                /\ Cardinality({i \in DOMAIN files.tiers[meta[p][1]] :
                                   files.tiers[meta[p][1]][i].id = input[p + 1].id}) = 1
            ApexOk(e) == Resolves(e[5]) /\ extract_operation(input[e[5] + 1]) = e[1]
        IN  /\ \A i \in DOMAIN files.apex_popular : ApexOk(files.apex_popular[i])
            /\ \A l \in DOMAIN files.apex_alpha :
                   \A i \in DOMAIN files.apex_alpha[l] : ApexOk(files.apex_alpha[l][i])
            /\ \A tok \in DOMAIN idx : \A i \in DOMAIN idx[tok] : Resolves(idx[tok][i])

\* C8: building the index twice from the same input records yields identical
\* apex lists, tag index (idx, meta, dict) and tiered content, with a fresh
\* builder each time and with build_layers called twice on one builder.
C8_RebuildIdentical ==
    \A i, j \in DOMAIN builds :
        builds[i].input = builds[j].input => builds[i].files = builds[j].files

\* the tier table: kind and confidence (percent) by occurrence count
TierTable(count) ==
    IF count >= 5 THEN <<"canonical", 100>>
    ELSE IF count >= 3 THEN <<"minor", 95>>
    ELSE IF count = 2 THEN <<"significant", 87>>
    ELSE <<"edge", 75>>

\* C9: for every count >= 1 exactly one tier is assigned, >= 5 canonical
\* (1.00), 3..4 minor variant (0.95), 2 significant variant (0.87), 1 edge
\* case (0.75), and every tier classifier of the index builders agrees with
\* this table, each under its own names for the tiers.
C9_ClassifiersAgreeWithTable ==
    \A k \in DOMAIN classified :
        LET r == classified[k]
            kind == TierTable(r.sources)[1]
            FourTiers == [canonical |-> "a0", minor |-> "a1", significant |-> "a2", edge |-> "a3"]
        IN  /\ r.cluster_examples = <<FourTiers[kind], TierTable(r.sources)[2]>>
            /\ r.pyramid = FourTiers[kind]
            /\ (kind = "canonical") = (r.three_layer = "a1")
            /\ (kind = "edge") = (r.three_layer = "a3")

\* ------------------------------------------------------------------------
\* Properties of the tag compressor and of the apex lists
\* ------------------------------------------------------------------------
\* the tags analyze_tags saw in build k
AnalysedTags(k) == {Lower(t) : t \in SeqToSet(AllTags(builds[k].input))}

\* C11: after analyze_tags distinct tags have distinct tokens of 2 to 4
\* characters, also when their first codes collide, and the dictionary inverts
\* the compression: the entry of compress(t) names t, for every analysed tag t.
C11_TokensDistinctAndInvertible ==
    \A k \in DOMAIN builds :
        LET comp == builds[k].compressor
            dict == builds[k].files.tag_index.dict
        IN  \A t \in AnalysedTags(k) :
                /\ Len(compress(comp, t)) \in 2..4
                /\ compress(comp, t) \in DOMAIN dict
                /\ dict[compress(comp, t)][1] = t
                /\ \A u \in AnalysedTags(k) : u # t => compress(comp, u) # compress(comp, t)

\* C12: apex_popular is ordered by total mentions descending, ties by topic
\* name ascending, and in every first-letter bucket of apex_alpha the entries
\* are sorted by entry string.
C12_ApexListsSorted ==
    \A k \in DOMAIN builds :
        LET popular == builds[k].files.apex_popular
            alpha == builds[k].files.apex_alpha
        IN  /\ \A i, j \in DOMAIN popular :
                   i < j => \/ popular[i][2] > popular[j][2]
                            \/ /\ popular[i][2] = popular[j][2]
                               /\ StrLess(popular[i][1], popular[j][1])
            /\ \A l \in DOMAIN alpha : \A i, j \in DOMAIN alpha[l] :
                   i < j => StrLess(EntryString(alpha[l][i]), EntryString(alpha[l][j]))

\* ------------------------------------------------------------------------
\* Properties of CodeExample (dedup/src/models.py)
\* ------------------------------------------------------------------------
\* C13: for a CodeExample built by from_code, with or without a source, and
\* changed by any sequence of add_source calls, occurrence_count equals the
\* number of source locations in sources.
C13_OccurrenceCountIsSourceCount ==
    \A i \in DOMAIN code_example :
        code_example[i].occurrence_count = Len(code_example[i].sources)

\* ------------------------------------------------------------------------
\* Properties of the build as a whole
\* ------------------------------------------------------------------------
\* C14: a build that fails or is terminated leaves no partial index: no file
\* in the output directory was written by a build_layers call that did not
\* complete.
C14_NoPartialIndex ==
    \A i \in DOMAIN FileNames :
        index_files.written_by[FileNames[i]] # 0 =>
            attempts[index_files.written_by[FileNames[i]]] = "completed"

\* C15: every build fully replaces the index: after build_from_database(db)
\* the keys of apex.operations, canonicals and clusters are exactly those of
\* the clusters of db, whatever the same PyramidIndex was built from before.
C15_BuildReplacesIndex ==
    \A i \in 1..Len(pyramid_builds) :
        LET cs == pyramid_builds[i].db.example_clusters
            idx == pyramid_builds[i].index
        IN  /\ DOMAIN idx.apex.operations = {cs[k].operation : k \in 1..Len(cs)}
            /\ DOMAIN idx.canonicals = {cs[k].canonical.id : k \in 1..Len(cs)}
            /\ DOMAIN idx.clusters = {cs[k].cluster_id : k \in 1..Len(cs)}

\* C16: the index builder cluster_examples leaves the example dicts it is
\* given unchanged.
C16_InputUnchanged ==
    \A i \in 1..Len(applied) :
        applied[i].fn = "cluster_examples" => applied[i].examples_after = applied[i].examples

\* C17: for every topic, total_mentions of its apex entry is the sum of
\* stats.mentions of the topic's records in the tiered content, example_count
\* is the number of those records, and depth is the deepest tier one of them uses.
C17_ApexEntryTotals ==
    \A k \in DOMAIN builds :
        LET input == builds[k].input
            tiers == builds[k].files.tiers
            popular == builds[k].files.apex_popular
            TopicOf(id) ==
                extract_operation(input[CHOOSE i \in DOMAIN input : input[i].id = id])
            Records(topic) ==
                {<<t, i>> \in {"a1", "a2", "a3"} \X (1..MaxRecords) :
                    i \in DOMAIN tiers[t] /\ TopicOf(tiers[t][i].id) = topic}
            RECURSIVE Mentions(_)
            Mentions(rs) ==
                IF rs = {} THEN 0
                ELSE LET r == CHOOSE x \in rs : TRUE
                     IN  tiers[r[1]][r[2]].stats.mentions + Mentions(rs \ {r})
            TierDigit(t) == IF t = "a1" THEN 1 ELSE IF t = "a2" THEN 2 ELSE 3
            Deepest(rs) == CHOOSE d \in 1..3 :
                               /\ \E r \in rs : TierDigit(r[1]) = d
                               /\ \A r \in rs : TierDigit(r[1]) <= d
        IN  \A e \in DOMAIN popular :
                /\ popular[e][2] = Mentions(Records(popular[e][1]))
                /\ popular[e][3] = Cardinality(Records(popular[e][1]))
                /\ popular[e][4] = Deepest(Records(popular[e][1]))

\* ------------------------------------------------------------------------
\* Properties of the text functions
\* ------------------------------------------------------------------------
\* C18: normalization is idempotent, normalize(normalize(x)) = normalize(x), for
\* Deduplicator._normalize_code and for CodeExample._normalize_code, and the
\* hash of the normalized text is the same after the second pass.
C18_NormalizeIdempotent ==
    \A i \in DOMAIN applied :
        /\ applied[i].fn \in {"normalize_code", "CodeExample_normalize_code"}
              => applied[i].twice = applied[i].once
        /\ applied[i].fn = "CodeExample_normalize_code"
              => applied[i].hash_twice = applied[i].hash_once

\* a text with a comment and loose blanks, which normalization changes
C18_Witness ==
    \E i \in DOMAIN applied :
        /\ applied[i].fn = "normalize_code"
        /\ applied[i].code = <<" ", "A", "#">>
        /\ applied[i].once = <<"a">>
        /\ applied[i].twice = <<"a">>

\* C19: the similarity of a pair lies in [0, 1], is the same both ways round,
\* and is 1 for a snippet compared with itself, also when its normalized text
\* is empty; the three weights sum to 1.
C19_SimilarityLaws ==
    /\ WeightRatio + WeightTokenSort + WeightTokenSet = 10
    /\ \A i \in DOMAIN applied :
           applied[i].fn = "calculate_similarity" =>
               /\ FracGE(applied[i].forward, <<0, 1>>)
               /\ FracGE(<<1, 1>>, applied[i].forward)
               /\ applied[i].forward = applied[i].backward
               /\ applied[i].code1 = applied[i].code2 => applied[i].forward = <<1, 1>>

\* ------------------------------------------------------------------------
\* Properties of the extracted examples
\* ------------------------------------------------------------------------
\* C20: the id of a snippet is a function of its normalized content only: two
\* extracted snippets with identical normalized text carry the same id,
\* however many snippets were extracted before them.
C20_IdFromNormalizedContent ==
    \A i, j \in DOMAIN examples :
        normalize_code(examples[i].code) = normalize_code(examples[j].code)
            => examples[i].id = examples[j].id

\* ------------------------------------------------------------------------
\* Properties of the clusters of one run
\* ------------------------------------------------------------------------
\* the positions in examples of the members of cluster c (ids are distinct)
MemberPositions(c) ==
    {i \in DOMAIN examples : \E k \in DOMAIN clusters[c].examples :
                                 clusters[c].examples[k].id = examples[i].id}

\* the position in examples of the first member of cluster c
SeedPosition(c) ==
    CHOOSE i \in DOMAIN examples : examples[i].id = clusters[c].examples[1].id

\* the examples not yet processed when the seed of cluster c is taken
Unprocessed(c) ==
    {i \in DOMAIN examples : \A b \in 1..(c - 1) : i \notin MemberPositions(b)}

\* _find_clusters has just returned the clusters of examples
ClustersReturned == pc = "merging" /\ merged_examples = <<>>

\* C21: membership is decided against the seed only: an example not yet
\* processed when the seed of a cluster is taken is a member of that cluster
\* if and only if its similarity to the seed reaches the threshold, whatever
\* its similarity to the other members.
C21_MembershipBySeedOnly ==
    ClustersReturned =>
        \A c \in DOMAIN clusters :
            /\ SeedPosition(c) \in Unprocessed(c)
            /\ \A i \in Unprocessed(c) \ {SeedPosition(c)} :
                   i \in MemberPositions(c)
                       <=> SimilarEnough(examples[SeedPosition(c)].code, examples[i].code,
                                         similarity_threshold)

\* a cluster with a second member, and an example left out of it that is
\* similar enough to that member but not to the seed
C21_Witness ==
    /\ ClustersReturned
    /\ \E c \in DOMAIN clusters : \E i \in Unprocessed(c) \ MemberPositions(c) :
           \E k \in 2..Len(clusters[c].examples) :
               /\ SimilarEnough(clusters[c].examples[k].code, examples[i].code,
                                similarity_threshold)
               /\ ~SimilarEnough(examples[SeedPosition(c)].code, examples[i].code,
                                 similarity_threshold)

\* C22: in every cluster the members are in input order, the seed being the
\* member first in the input, the canonical is the id of that first member,
\* and the clusters come in the order of their seeds with the ids
\* cluster_0000, cluster_0001, ... in that order.
C22_FirstSeenOrder ==
    ClustersReturned =>
        \A c \in DOMAIN clusters :
            LET members == clusters[c].examples
                Position(k) == CHOOSE i \in DOMAIN examples : examples[i].id = members[k].id
            IN  /\ \A k \in DOMAIN members : members[k] = examples[Position(k)]
                /\ \A k, l \in DOMAIN members : k < l => Position(k) < Position(l)
                /\ clusters[c].canonical = members[1].id
                /\ clusters[c].cluster_id = ClusterId(c - 1)
                /\ \A b \in 1..(c - 1) : SeedPosition(b) < SeedPosition(c)

\* two clusters, the first with a member that comes after the seed of the second
C22_Witness ==
    /\ ClustersReturned
    /\ Len(clusters) >= 2
    /\ \E i \in MemberPositions(1) : i > SeedPosition(2)

\* ------------------------------------------------------------------------
\* Properties of a finished run
\* ------------------------------------------------------------------------
\* deduplicate has returned and nothing was extracted or started since
RunFinished == pc = "idle" /\ Len(results) > 0 /\ Len(merged_examples) = Len(clusters)

\* C23: after deduplicate has completed, the canonical of every cluster of two
\* or more whose merge succeeded is the record the merge chose; the first-seen
\* placeholder remains only for singletons and failed merges.
C23_CanonicalOverwritten ==
    RunFinished =>
        \A k \in DOMAIN clusters :
            (Len(clusters[k].examples) >= 2 /\ ~IsFallback(merged_examples[k]))
                => clusters[k].canonical = merged_examples[k].id

\* the requests sent during the current run, or during the last one when idle
RequestsOfRun ==
    SelectSeq(requests,
              LAMBDA r : r.run = IF pc = "merging" THEN Len(results) + 1 ELSE Len(results))

\* C24: during a run the collaborator is called one cluster at a time in cluster
\* order: after each turn of the merge loop, and when the run has finished, the
\* requests of the run are as many as the clusters of two or more merged so
\* far (one each, none for a singleton, none repeated after a failure), each
\* sent after the one before, and the loop takes one turn per cluster.
C24_OneRequestPerMultiCluster ==
    (pc = "merging" \/ RunFinished) =>
        /\ Len(merged_examples) <= Len(clusters)
        /\ Len(RequestsOfRun)
               = Cardinality({k \in DOMAIN merged_examples : Len(clusters[k].examples) >= 2})
        /\ \A i \in 1..(Len(RequestsOfRun) - 1) :
               RequestsOfRun[i].sent < RequestsOfRun[i + 1].sent

\* a finished run with a singleton and a cluster of two whose request failed
C24_Witness ==
    /\ RunFinished
    /\ \E k \in DOMAIN clusters : Len(clusters[k].examples) = 1
    /\ \E k \in DOMAIN clusters :
           Len(clusters[k].examples) >= 2 /\ merge_log[k].transport = "error"
    /\ Len(RequestsOfRun) = 1

\* C25: deduplicate returns one merged record per cluster, in cluster order,
\* merged_count being the number of clusters; on every merge path the sources
\* of the record are the ids of the members of its cluster, so every input
\* example id is in the sources of exactly one merged record.
C25_OneRecordPerCluster ==
    RunFinished =>
        LET result == results[Len(results)]
        IN  /\ result.merged_count = Len(clusters)
            /\ \A k \in DOMAIN clusters :
                   merged_examples[k].sources = Ids(clusters[k].examples)
            /\ \A i \in 1..result.original_count :
                   Cardinality({k \in DOMAIN merged_examples :
                                   \E m \in DOMAIN merged_examples[k].sources :
                                       merged_examples[k].sources[m] = examples[i].id}) = 1

\* a finished run with a singleton, and a cluster of two merged on a failure path
C25_Witness ==
    /\ RunFinished
    /\ \E k \in DOMAIN clusters : Len(clusters[k].examples) = 1
    /\ \E k \in DOMAIN clusters :
           /\ Len(clusters[k].examples) >= 2
           /\ merged_examples[k].notes[1] = "AI merge failed, using first example. Error"

\* ------------------------------------------------------------------------
\* Properties of the usage counters
\* ------------------------------------------------------------------------
Counters(c) == <<c.total_input_tokens, c.total_output_tokens, c.total_cost>>

\* this step is a turn of the merge loop
MergeStep == pc = "merging" /\ Len(merged_examples') = Len(merged_examples) + 1

\* this step is a turn of the merge loop in which a response with usage came
\* back to a client that tracks costs
CountedResponse ==
    /\ MergeStep
    /\ Len(clusters[Len(merged_examples) + 1].examples) >= 2
    /\ merge_log'[Len(merge_log')].transport # "error"
    /\ merge_log'[Len(merge_log')].usage
    /\ client.track_costs

\* the counters never decrease, and they change in no step but one in which a
\* response came back, by the token counts of that response and their cost
CountersFrame ==
    /\ client'.total_input_tokens >= client.total_input_tokens
    /\ client'.total_output_tokens >= client.total_output_tokens
    /\ client'.total_cost >= client.total_cost
    /\ ~CountedResponse => Counters(client') = Counters(client)
    /\ CountedResponse =>
           Counters(client') =
               <<client.total_input_tokens + PromptTokens,
                 client.total_output_tokens + CompletionTokens,
                 client.total_cost + PromptTokens * RateInput + CompletionTokens * RateOutput>>

\* C26 as stated: the usage counters change only by a request that returned a
\* response, never decrease, grow by that response's token counts, and stay
\* as they are on a singleton merge, a failed request, a parse failure and
\* with track_costs = false.
C26_CountersUnchangedOnParseFailure ==
    [][/\ CountersFrame
       /\ (MergeStep /\ merged_examples'[Len(merged_examples')].notes[1]
                            = "JSON parse failed. Raw response")
              => Counters(client') = Counters(client)]_vars

\* C26: the usage counters never decrease and change only in a turn of the
\* merge loop in which a response with usage came back to a client that tracks
\* costs, then by exactly that response's prompt and completion token counts
\* and their cost, also when the response cannot be parsed afterwards; a
\* singleton merge, a request that raised, and track_costs = false leave all
\* three counters as they are, and no other step writes them.
C26_CountersChangeOnlyByResponse == [][CountersFrame]_vars

\* a response that could not be parsed has been counted, next to a singleton
C26_Witness ==
    /\ pc = "merging"
    /\ client.total_input_tokens = PromptTokens
    /\ \E k \in DOMAIN merged_examples :
           merged_examples[k].notes[1] = "JSON parse failed. Raw response"
    /\ \E k \in DOMAIN merged_examples : Len(clusters[k].examples) = 1

\* C27: the seeds of the clusters are pairwise below the threshold in seeding
\* order: for a seed s taken before a seed t, similarity(s, t) < threshold.
C27_SeedsBelowThreshold ==
    ClustersReturned =>
        \A b, c \in DOMAIN clusters :
            b < c => ~SimilarEnough(clusters[b].examples[1].code,
                                    clusters[c].examples[1].code, similarity_threshold)

\* a later seed that does reach the threshold towards a member of an earlier
\* cluster, though not towards its seed
C27_Witness ==
    /\ ClustersReturned
    /\ \E b, c \in DOMAIN clusters :
           /\ b < c
           /\ \E k \in 2..Len(clusters[b].examples) :
                  SimilarEnough(clusters[b].examples[k].code, clusters[c].examples[1].code,
                                similarity_threshold)

\* ------------------------------------------------------------------------
\* Properties of the tier stores
\* ------------------------------------------------------------------------
\* C28: build_layers places every input record in exactly one of the three
\* tier stores, the store sizes summing to the number of records, and a record
\* is in the canonical store a1 only with at least two sources and a
\* confidence of at least 0.9.
C28_EveryRecordInOneStore ==
    /\ \A a \in DOMAIN attempts : attempts[a] = "completed"
    /\ \A k \in DOMAIN builds :
           LET input == builds[k].input
               tiers == builds[k].files.tiers
           IN  /\ Len(tiers["a1"]) + Len(tiers["a2"]) + Len(tiers["a3"]) = Len(input)
               /\ \A i \in DOMAIN input :
                      Cardinality({<<t, p>> \in {"a1", "a2", "a3"} \X (1..MaxRecords) :
                                      p \in DOMAIN tiers[t] /\ tiers[t][p].id = input[i].id}) = 1
               /\ \A p \in DOMAIN tiers["a1"] :
                      /\ tiers["a1"][p].stats.mentions >= 2
                      /\ tiers["a1"][p].confidence >= 90

\* ------------------------------------------------------------------------
\* Properties of the PyramidIndex
\* ------------------------------------------------------------------------
\* C29: after build_from_database(db) every cluster of db is reachable from the
\* apex: the apex entry of its operation names its canonical, the
\* tier_distribution of that entry sums to the cluster's total_occurrences, and
\* total_operations is the number of clusters, also when clusters of db share
\* an operation name.
C29_ClustersReachableFromApex ==
    \A b \in DOMAIN pyramid_builds :
        LET cs == pyramid_builds[b].db.example_clusters
            apex == pyramid_builds[b].index.apex
            RECURSIVE SumOver(_, _)
            SumOver(dist, keys) ==
                IF keys = {} THEN 0
                ELSE LET t == CHOOSE x \in keys : TRUE
                     IN  dist[t] + SumOver(dist, keys \ {t})
        IN  /\ apex.total_operations = Len(cs)
            /\ \A k \in DOMAIN cs :
                   /\ cs[k].operation \in DOMAIN apex.operations
                   /\ apex.operations[cs[k].operation].canonical_id = cs[k].canonical.id
                   /\ LET dist == apex.operations[cs[k].operation].tier_distribution
                      IN  SumOver(dist, DOMAIN dist) = total_occurrences(cs[k])

\* the positions in the input of a build of the records of an operation
RecordsOf(o, op) ==
    {i \in DOMAIN o.input : PyramidBuilder_extract_operation(o.input[i]) = op}

\* how often a record id is listed in the tiers a1, a2, a3 of a cluster
TimesInVariantTiers(cl, id) ==
    Cardinality({<<t, k>> \in {"a1", "a2", "a3"} \X (1..MaxPyramidBuilds * MaxRecords) :
                    k \in DOMAIN cl.tiers[t] /\ cl.tiers[t][k].example_id = id})

\* the files of one build_pyramid describe the records the builder was given
PyramidOutputOk(o) ==
    LET apex == o.files.apex_index
        canonical == o.files.canonical_examples.examples
        variant == o.files.variant_clusters.clusters
        ops == {PyramidBuilder_extract_operation(o.input[i]) : i \in DOMAIN o.input}
    IN  /\ DOMAIN apex.operations = ops
        /\ \A op \in ops :
              LET e == apex.operations[op]
                  first == CHOOSE i \in RecordsOf(o, op) : \A j \in RecordsOf(o, op) : i <= j
                  cid == <<"cluster">> \o op
              IN  /\ e.canonical_id = o.input[first].id
                  /\ cid \in DOMAIN variant
                  /\ \A i \in RecordsOf(o, op) \ {first} :
                        TimesInVariantTiers(variant[cid], o.input[i].id) = 1
                  /\ e.variant_count + 1 = e.total_occurrences
                  /\ e.total_occurrences = Cardinality(RecordsOf(o, op))
                  /\ e.canonical_id \in DOMAIN canonical
                  /\ \A t \in {"a1", "a2", "a3"} :
                        \A k \in DOMAIN canonical[e.canonical_id].variants[t] :
                            TimesInVariantTiers(variant[cid],
                                                canonical[e.canonical_id].variants[t][k]) >= 1

\* C30: in the files of every build_pyramid each operation of the input has
\* one canonical, the first record of the operation; every other record of
\* the operation is listed once in a1, a2, a3; variant_count + 1 equals
\* total_occurrences equals the number of records of the operation; and the
\* canonical id of apex_index is a key of canonical_examples whose variant
\* ids are all listed in the cluster of the operation in variant_clusters
C30_OneCanonicalPerOperation ==
    \A b \in DOMAIN pyramid_outputs : PyramidOutputOk(pyramid_outputs[b])

\* the same for the first build_pyramid of a builder only
FirstBuildOutputsOk ==
    \A b \in DOMAIN pyramid_outputs :
        pyramid_outputs[b].fresh => PyramidOutputOk(pyramid_outputs[b])

\* a first build of three records, two of them of one operation
FirstBuildReached ==
    \E b \in DOMAIN pyramid_outputs :
        /\ pyramid_outputs[b].fresh
        /\ Len(pyramid_outputs[b].input) = 3
        /\ pyramid_outputs[b].files.apex_index.total_operations = 2

====
